---- MODULE Spec2Model ----
(***************************************************************************)
(* JsonToDart(Freezed): the FreezedGenerator of src/src/extension.ts (the  *)
(* second, current copy of the extension, lines 1256-2946) and the string  *)
(* helpers it uses.                                                        *)
(*                                                                         *)
(* A JavaScript string is a sequence of one-character strings, so that     *)
(* casing, sanitising, suffixing and the endsWith / startsWith tests of    *)
(* the code are computed character by character.  `undefined` is the       *)
(* one-element sequence Undefined, which is no string of the program.      *)
(***************************************************************************)
EXTENDS Integers, Sequences, FiniteSets, TLC

(***************************************************************************)
(* Characters                                                              *)
(***************************************************************************)
LowerSeq ==
  <<"a","b","c","d","e","f","g","h","i","j","k","l","m",
    "n","o","p","q","r","s","t","u","v","w","x","y","z">>

UpperSeq ==
  <<"A","B","C","D","E","F","G","H","I","J","K","L","M",
    "N","O","P","Q","R","S","T","U","V","W","X","Y","Z">>

DigitSeq == <<"0","1","2","3","4","5","6","7","8","9">>

Range(s) == { s[i] : i \in DOMAIN s }

LowerChars == Range(LowerSeq)

UpperChars == Range(UpperSeq)

DigitChars == Range(DigitSeq)

AlnumChars == LowerChars \cup UpperChars \cup DigitChars

\* [a-z0-9]
LowerOrDigitChars == LowerChars \cup DigitChars

\* [A-Za-z0-9_]
WordChars == AlnumChars \cup {"_"}

IndexIn(seq, c) == CHOOSE i \in DOMAIN seq : seq[i] = c

\* String.prototype.toUpperCase on one character of the model's alphabet
UpperOf == [ c \in LowerChars |-> UpperSeq[IndexIn(LowerSeq, c)] ]

LowerOf == [ c \in UpperChars |-> LowerSeq[IndexIn(UpperSeq, c)] ]

ToUpperChar(c) == IF c \in LowerChars THEN UpperOf[c] ELSE c

ToLowerChar(c) == IF c \in UpperChars THEN LowerOf[c] ELSE c

\* the value of a decimal digit character
DigitValue(c) == IndexIn(DigitSeq, c) - 1

(***************************************************************************)
(* Strings                                                                 *)
(***************************************************************************)
Undefined == <<"<undefined>">>

\* JavaScript truthiness of a string-or-undefined value
Truthy(s) == s # Undefined /\ s # <<>>

EndsWith(s, suffix) ==
  /\ Len(s) >= Len(suffix)
  /\ SubSeq(s, Len(s) - Len(suffix) + 1, Len(s)) = suffix

StartsWith(s, prefix) ==
  /\ Len(s) >= Len(prefix)
  /\ SubSeq(s, 1, Len(prefix)) = prefix

RECURSIVE Concat(_)
\* Array.prototype.join('') of a list of strings
Concat(parts) ==
  IF parts = <<>> THEN <<>> ELSE Head(parts) \o Concat(Tail(parts))

RECURSIVE DecimalDigits(_)
DecimalDigits(n) ==
  IF n < 10 THEN <<DigitSeq[n + 1]>>
  ELSE DecimalDigits(n \div 10) \o <<DigitSeq[(n % 10) + 1]>>

\* String(n) / `${n}` of a non-negative integer
NumberToString(n) == DecimalDigits(n)

(***************************************************************************)
(* constants.ts                                                            *)
(***************************************************************************)
RESERVED_WORDS ==
  {
    <<"a","b","s","t","r","a","c","t">>, <<"e","l","s","e">>,
    <<"i","m","p","o","r","t">>, <<"s","h","o","w">>,
    <<"a","s">>, <<"e","n","u","m">>,
    <<"i","n">>, <<"s","t","a","t","i","c">>,
    <<"a","s","s","e","r","t">>, <<"e","x","p","o","r","t">>,
    <<"i","n","t","e","r","f","a","c","e">>, <<"s","u","p","e","r">>,
    <<"a","s","y","n","c">>, <<"e","x","t","e","n","d","s">>,
    <<"i","s">>, <<"s","w","i","t","c","h">>,
    <<"a","w","a","i","t">>, <<"e","x","t","e","n","s","i","o","n">>,
    <<"l","a","t","e">>, <<"s","y","n","c">>,
    <<"b","r","e","a","k">>, <<"e","x","t","e","r","n","a","l">>,
    <<"l","i","b","r","a","r","y">>, <<"t","h","i","s">>,
    <<"c","a","s","e">>, <<"f","a","c","t","o","r","y">>,
    <<"m","i","x","i","n">>, <<"t","h","r","o","w">>,
    <<"c","a","t","c","h">>, <<"f","a","l","s","e">>,
    <<"n","e","w">>, <<"t","r","u","e">>,
    <<"c","l","a","s","s">>, <<"f","i","n","a","l">>,
    <<"n","u","l","l">>, <<"t","r","y">>,
    <<"c","o","n","s","t">>, <<"f","i","n","a","l","l","y">>,
    <<"o","n">>, <<"t","y","p","e","d","e","f">>,
    <<"c","o","n","t","i","n","u","e">>, <<"f","o","r">>,
    <<"o","p","e","r","a","t","o","r">>, <<"v","a","r">>,
    <<"c","o","v","a","r","i","a","n","t">>, <<"F","u","n","c","t","i","o","n">>,
    <<"p","a","r","t">>, <<"v","o","i","d">>,
    <<"d","e","f","a","u","l","t">>, <<"g","e","t">>,
    <<"r","e","q","u","i","r","e","d">>, <<"w","h","i","l","e">>,
    <<"d","e","f","e","r","r","e","d">>, <<"h","i","d","e">>,
    <<"r","e","t","h","r","o","w">>, <<"w","i","t","h">>,
    <<"d","o">>, <<"i","f">>,
    <<"r","e","t","u","r","n">>, <<"y","i","e","l","d">>
  }

DISALLOWED_CLASS_NAMES ==
  { <<"L","i","s","t">>, <<"M","a","p">>, <<"S","e","t">>, <<"I","t","e","r","a","b","l","e">>, <<"O","b","j","e","c","t">>, <<"S","t","r","i","n","g">> }

(***************************************************************************)
(* utils.ts: naming helpers                                                *)
(***************************************************************************)
\* a Map<string, number> read at a key it may not hold: 0 stands for undefined
MapGet(counts, baseName) ==
  IF baseName \in DOMAIN counts THEN counts[baseName] ELSE 0

MapSet(counts, baseName, n) ==
  [ k \in DOMAIN counts \cup {baseName} |->
      IF k = baseName THEN n ELSE counts[k] ]

\* uniqueFieldName suffixing the count it found, not the count it stores
uniqueFieldNameStaleCount(baseName, counts) ==
  IF MapGet(counts, baseName) = 0
    THEN [ name |-> baseName, counts |-> MapSet(counts, baseName, 1) ]
    ELSE [ name   |-> baseName \o NumberToString(MapGet(counts, baseName)),
           counts |-> MapSet(counts, baseName, MapGet(counts, baseName) + 1) ]

\* uniqueFieldName(baseName, counts): the returned name and the updated map
uniqueFieldName(baseName, counts) ==
  LET existing == MapGet(counts, baseName) IN
    IF existing = 0
      THEN [ name |-> baseName, counts |-> MapSet(counts, baseName, 1) ]
      ELSE [ name   |-> baseName \o NumberToString(existing + 1),
             counts |-> MapSet(counts, baseName, existing + 1) ]

\* FreezedGenerator.uniqueClassName(baseName) on this.usedClassNames
uniqueClassName(baseName, usedClassNames) ==
  LET existing == MapGet(usedClassNames, baseName) IN
    IF existing = 0
      THEN [ name |-> baseName, counts |-> MapSet(usedClassNames, baseName, 1) ]
      ELSE [ name   |-> baseName \o NumberToString(existing + 1),
             counts |-> MapSet(usedClassNames, baseName, existing + 1) ]

ensureEntitySuffix(input) ==
  IF input = <<>> THEN input
  ELSE IF Len(input) >= 7
          /\ LET tail == SubSeq(input, Len(input) - 6, Len(input)) IN
               [ i \in 1..7 |-> ToLowerChar(tail[i]) ] = <<"_","e","n","t","i","t","y">>
         THEN input
         ELSE input \o <<"_","e","n","t","i","t","y">>

\* ensureSafeClassName letting every name through
ensureSafeClassNameKeepsName(name, suffix) == name

\* ensureSafeClassName appending Model whatever suffix its caller gives
ensureSafeClassNameAlwaysModel(name, suffix) ==
  IF name \in DISALLOWED_CLASS_NAMES THEN name \o <<"M","o","d","e","l">> ELSE name

ensureSafeClassName(name, suffix) ==
  IF name \in DISALLOWED_CLASS_NAMES THEN name \o suffix ELSE name

RECURSIVE InsertAtCaseBoundaries(_, _)
\* input.replace(/([a-z0-9])([A-Z])/g, '$1' + sep + '$2')
InsertAtCaseBoundaries(s, sep) ==
  IF Len(s) < 2 THEN s
  ELSE IF s[1] \in LowerOrDigitChars /\ s[2] \in UpperChars
         THEN <<s[1]>> \o sep \o InsertAtCaseBoundaries(Tail(s), sep)
         ELSE <<s[1]>> \o InsertAtCaseBoundaries(Tail(s), sep)

RECURSIVE SplitAlnum(_, _, _)
\* s.split(/[^A-Za-z0-9]+/).filter(Boolean): the maximal alphanumeric runs
SplitAlnum(s, current, parts) ==
  IF s = <<>>
    THEN IF current = <<>> THEN parts ELSE Append(parts, current)
  ELSE IF s[1] \in AlnumChars
    THEN SplitAlnum(Tail(s), Append(current, s[1]), parts)
  ELSE SplitAlnum(Tail(s), <<>>,
                  IF current = <<>> THEN parts ELSE Append(parts, current))

\* a part capitalised with the rest of it lowered
CapitalizeLowerRest(part) ==
  IF part = <<>> THEN part
  ELSE <<ToUpperChar(part[1])>>
         \o [ i \in 1..(Len(part) - 1) |-> ToLowerChar(part[i + 1]) ]

\* part.charAt(0).toUpperCase() + part.slice(1)
Capitalize(part) ==
  IF part = <<>> THEN part ELSE <<ToUpperChar(part[1])>> \o Tail(part)

\* line 46: a result that starts with a digit is prefixed with X
prefixLeadingDigit(result) ==
  IF result[1] \in DigitChars THEN <<"X">> \o result ELSE result

\* lines 38-46: the parts capitalised and joined
joinParts(parts) ==
  IF parts = <<>> THEN <<>>
  ELSE prefixLeadingDigit(Concat([ i \in DOMAIN parts |-> Capitalize(parts[i]) ]))

\* toPascalCase without the guard against a leading digit
toPascalCaseNoDigitGuard(input) ==
  LET parts == SplitAlnum(InsertAtCaseBoundaries(input, <<" ">>), <<>>, <<>>)
  IN  IF parts = <<>> THEN <<>>
      ELSE Concat([ i \in DOMAIN parts |-> Capitalize(parts[i]) ])

toPascalCase(input) ==
  joinParts(SplitAlnum(InsertAtCaseBoundaries(input, <<" ">>), <<>>, <<>>))

\* lines 51-55: the first character of the PascalCase form lowered
lowerFirst(pascal) ==
  IF pascal = <<>> THEN <<>>
  ELSE <<ToLowerChar(pascal[1])>> \o Tail(pascal)

toCamelCase(input) == lowerFirst(toPascalCase(input))

RECURSIVE DropLeadingNonAlnum(_)
DropLeadingNonAlnum(s) ==
  IF s = <<>> \/ s[1] \in AlnumChars THEN s ELSE DropLeadingNonAlnum(Tail(s))

RECURSIVE CollapseNonAlnum(_)
\* s.replace(/[^A-Za-z0-9]+/g, '_')
CollapseNonAlnum(s) ==
  IF s = <<>> THEN s
  ELSE IF s[1] \in AlnumChars THEN <<s[1]>> \o CollapseNonAlnum(Tail(s))
  ELSE <<"_">> \o CollapseNonAlnum(DropLeadingNonAlnum(s))

RECURSIVE StripLeadingUnderscores(_)
StripLeadingUnderscores(s) ==
  IF s # <<>> /\ s[1] = "_" THEN StripLeadingUnderscores(Tail(s)) ELSE s

RECURSIVE StripTrailingUnderscores(_)
StripTrailingUnderscores(s) ==
  IF s # <<>> /\ s[Len(s)] = "_"
    THEN StripTrailingUnderscores(SubSeq(s, 1, Len(s) - 1))
    ELSE s

\* String.prototype.toLowerCase
ToLowerCase(s) == [ i \in DOMAIN s |-> ToLowerChar(s[i]) ]

toSnakeCase(input) ==
  StripTrailingUnderscores(StripLeadingUnderscores(ToLowerCase(
    CollapseNonAlnum(InsertAtCaseBoundaries(input, <<"_">>)))))

\* sanitizeIdentifier without its reserved-word check
suffixReservedNever(result) == result

\* lines 78-80
suffixReserved(result) ==
  IF result \in RESERVED_WORDS THEN result \o <<"F","i","e","l","d">> ELSE result

\* lines 74-76
prefixDigit(result) ==
  suffixReserved(IF result[1] \in DigitChars
                   THEN <<"f","i","e","l","d">> \o result ELSE result)

\* lines 70-72
replaceEmpty(result) ==
  prefixDigit(IF result = <<>> THEN <<"f","i","e","l","d">> ELSE result)

sanitizeIdentifier(input) ==
  replaceEmpty(SelectSeq(input, LAMBDA c : c \in WordChars))

singularize(input) ==
  IF Len(input) > 1 /\ input[Len(input)] = "s"
    THEN SubSeq(input, 1, Len(input) - 1)
    ELSE input

\* makeNullable wrapping whatever the type is
makeNullableAlwaysWraps(typeName) == typeName \o <<"?">>

makeNullable(typeName) ==
  IF EndsWith(typeName, <<"?">>) \/ typeName = <<"d","y","n","a","m","i","c">>
    THEN typeName
    ELSE typeName \o <<"?">>

RECURSIVE escapeDartString(_)
\* input.replace(/\\/g, '\\\\').replace(/'/g, "\\'")
escapeDartString(input) ==
  IF input = <<>> THEN input
  ELSE IF input[1] = "\\" THEN <<"\\", "\\">> \o escapeDartString(Tail(input))
  ELSE IF input[1] = "'"  THEN <<"\\", "'">> \o escapeDartString(Tail(input))
  ELSE <<input[1]>> \o escapeDartString(Tail(input))

(***************************************************************************)
(* types.ts: JsonValue.  A JSON value is [kind, val]; an object's val is   *)
(* the sequence of its <<key, value>> members in the order JSON.parse      *)
(* inserted them (the order of the JSON text), keys distinct.  A number's  *)
(* val is its value in tenths (10 is 1 or 1.0, 15 is 1.5).                 *)
(***************************************************************************)
JNull == [ kind |-> "null", val |-> 0 ]

JBool(b) == [ kind |-> "boolean", val |-> b ]

JNumber(tenths) == [ kind |-> "number", val |-> tenths ]

JString(s) == [ kind |-> "string", val |-> s ]

JArray(items) == [ kind |-> "array", val |-> items ]

JObject(members) == [ kind |-> "object", val |-> members ]

\* Number.isInteger(value)
NumberIsInteger(value) == value.val % 10 = 0

RECURSIVE DecimalValue(_)
DecimalValue(digits) ==
  IF digits = <<>> THEN 0
  ELSE 10 * DecimalValue(SubSeq(digits, 1, Len(digits) - 1))
         + DigitValue(digits[Len(digits)])

\* an ECMAScript array index: a canonical numeric string below 2^32 - 1
IsArrayIndex(key) ==
  /\ key # <<>>
  /\ Len(key) <= 9
  /\ \A i \in DOMAIN key : key[i] \in DigitChars
  /\ (Len(key) = 1 \/ key[1] # "0")

\* Object.entries(obj): own keys in property order, array-index keys first in
\* ascending numeric order, then the other keys in insertion order
ObjectEntries(obj) ==
  LET indexed == SelectSeq(obj.val, LAMBDA m : IsArrayIndex(m[1]))
      named   == SelectSeq(obj.val, LAMBDA m : ~IsArrayIndex(m[1]))
  IN  SortSeq(indexed,
              LAMBDA a, b : DecimalValue(a[1]) < DecimalValue(b[1])) \o named

(***************************************************************************)
(* FreezedGenerator.  An instance is [options, classes, usedClassNames];   *)
(* every method takes the instance and returns it as the method left it,   *)
(* with the method's own result.                                           *)
(***************************************************************************)
TypeObjectNullable == <<"O","b","j","e","c","t","?">>

TypeDynamic == <<"d","y","n","a","m","i","c">>

TypeListDynamic == <<"L","i","s","t","<","d","y","n","a","m","i","c",">">>

TypeString == <<"S","t","r","i","n","g">>

TypeInt == <<"i","n","t">>

TypeDouble == <<"d","o","u","b","l","e">>

TypeBool == <<"b","o","o","l">>

\* fieldType.replace(/\?$/, '')
StripNullable(fieldType) ==
  IF EndsWith(fieldType, <<"?">>)
    THEN SubSeq(fieldType, 1, Len(fieldType) - 1)
    ELSE fieldType

WhiteSpaceChars == { " " }

RECURSIVE TrimStart(_)
TrimStart(s) ==
  IF s # <<>> /\ s[1] \in WhiteSpaceChars THEN TrimStart(Tail(s)) ELSE s

RECURSIVE TrimEnd(_)
TrimEnd(s) ==
  IF s # <<>> /\ s[Len(s)] \in WhiteSpaceChars
    THEN TrimEnd(SubSeq(s, 1, Len(s) - 1))
    ELSE s

\* String.prototype.trim
Trim(s) == TrimEnd(TrimStart(s))

RECURSIVE LeadingDigits(_)
LeadingDigits(s) ==
  IF s # <<>> /\ s[1] \in DigitChars
    THEN <<s[1]>> \o LeadingDigits(Tail(s))
    ELSE <<>>

RECURSIVE StripLeadingZeros(_)
StripLeadingZeros(digits) ==
  IF Len(digits) > 1 /\ digits[1] = "0"
    THEN StripLeadingZeros(Tail(digits))
    ELSE digits

RECURSIVE StripTrailingZeros(_)
StripTrailingZeros(digits) ==
  IF digits # <<>> /\ digits[Len(digits)] = "0"
    THEN StripTrailingZeros(SubSeq(digits, 1, Len(digits) - 1))
    ELSE digits

\* the sign a numeric literal starts with, and the text after it
SignOf(s) == IF s # <<>> /\ s[1] \in {"-", "+"} THEN <<s[1]>> ELSE <<>>

Unsigned(s) == IF s # <<>> /\ s[1] \in {"-", "+"} THEN Tail(s) ELSE s

\* String(value) of a number read as sign and magnitude; -0 prints as 0
signedText(sign, magnitude) ==
  IF sign = <<"-">> /\ magnitude # <<"0">>
    THEN <<"-">> \o magnitude
    ELSE magnitude

\* the digits parseInt read after the sign
intText(sign, digits) ==
  IF digits = <<>> THEN Undefined
  ELSE signedText(sign, StripLeadingZeros(digits))

parseIntTrimmed(text) == intText(SignOf(text), LeadingDigits(Unsigned(text)))

\* String(parseInt(raw, 10)), or Undefined where parseInt gives NaN
ParseIntToString(raw) == parseIntTrimmed(TrimStart(raw))

\* the decimal text of a whole part and a fraction without trailing zeros
decimalText(whole, frac) ==
  IF frac = <<>> THEN whole ELSE whole \o <<".">> \o frac

\* the integer digits and fraction digits parseFloat read after the sign
floatText(sign, intPart, fracPart) ==
  IF intPart = <<>> /\ fracPart = <<>> THEN Undefined
  ELSE signedText(sign,
         decimalText(IF intPart = <<>> THEN <<"0">>
                                       ELSE StripLeadingZeros(intPart),
                     StripTrailingZeros(fracPart)))

\* the fraction digits of what follows the integer digits
fractionDigits(rest) ==
  IF rest # <<>> /\ rest[1] = "." THEN LeadingDigits(Tail(rest)) ELSE <<>>

floatOfParts(sign, body, intPart) ==
  floatText(sign, intPart,
            fractionDigits(SubSeq(body, Len(intPart) + 1, Len(body))))

floatOfBody(sign, body) == floatOfParts(sign, body, LeadingDigits(body))

parseFloatTrimmed(text) == floatOfBody(SignOf(text), Unsigned(text))

\* String(parseFloat(raw)), or Undefined where parseFloat gives NaN, for a
\* decimal literal with no exponent part
ParseFloatToString(raw) == parseFloatTrimmed(TrimStart(raw))

\* Number.isFinite(value) ? String(value) : fallback
finiteOr(value, fallback) == IF value # Undefined THEN value ELSE fallback

\* lines 1918-1919
listDefault(listValue) ==
  IF Truthy(listValue) THEN listValue ELSE <<"c","o","n","s","t"," ","[","]">>

\* lines 1935-1936
boolDefault(raw) ==
  IF raw = <<"t","r","u","e">> \/ raw = <<"f","a","l","s","e">> THEN raw ELSE <<"f","a","l","s","e">>

\* lines 1917-1941: the default literal of a base type
defaultOfBase(defaults, baseType) ==
  IF StartsWith(baseType, <<"L","i","s","t","<">>)
    THEN listDefault(Trim(defaults.listValue))
  ELSE IF baseType = TypeString
    THEN <<"'">> \o escapeDartString(defaults.stringValue) \o <<"'">>
  ELSE IF baseType = TypeInt
    THEN finiteOr(ParseIntToString(defaults.intValue), <<"0">>)
  ELSE IF baseType = TypeDouble
    THEN finiteOr(ParseFloatToString(defaults.doubleValue), <<"0",".","0">>)
  ELSE IF baseType = TypeBool
    THEN boolDefault(ToLowerCase(Trim(defaults.boolValue)))
  ELSE Undefined

defaultValueFor(g, fieldType, isNullable) ==
  IF isNullable /\ ~g.options.useDefaultValues THEN Undefined
  ELSE defaultOfBase(g.options.defaults, StripNullable(fieldType))

\* the converter of a base type, double forgotten
converterOfBaseNoDouble(baseType) ==
  IF StartsWith(baseType, <<"L","i","s","t","<">>) THEN Undefined
  ELSE IF baseType = TypeInt THEN <<"@","I","n","t","J","s","o","n","C","o","n","v","e","r","t","e","r","(",")">>
  ELSE IF baseType = TypeBool THEN <<"@","B","o","o","l","J","s","o","n","C","o","n","v","e","r","t","e","r","(",")">>
  ELSE IF baseType = TypeString THEN <<"@","S","t","r","i","n","g","J","s","o","n","C","o","n","v","e","r","t","e","r","(",")">>
  ELSE Undefined

\* lines 1946-1961: the converter of a base type
converterOfBase(baseType) ==
  IF StartsWith(baseType, <<"L","i","s","t","<">>) THEN Undefined
  ELSE IF baseType = TypeInt THEN <<"@","I","n","t","J","s","o","n","C","o","n","v","e","r","t","e","r","(",")">>
  ELSE IF baseType = TypeDouble THEN <<"@","D","o","u","b","l","e","J","s","o","n","C","o","n","v","e","r","t","e","r","(",")">>
  ELSE IF baseType = TypeBool THEN <<"@","B","o","o","l","J","s","o","n","C","o","n","v","e","r","t","e","r","(",")">>
  ELSE IF baseType = TypeString THEN <<"@","S","t","r","i","n","g","J","s","o","n","C","o","n","v","e","r","t","e","r","(",")">>
  ELSE Undefined

converterAnnotationFor(fieldType) == converterOfBase(StripNullable(fieldType))

RECURSIVE createClass(_, _, _, _, _)
RECURSIVE createClassFields(_, _, _, _)
RECURSIVE inferField(_, _, _, _)
RECURSIVE inferType(_, _, _)
RECURSIVE inferArrayType(_, _, _)
RECURSIVE inferArrayItems(_, _, _, _)
RECURSIVE inferArrayItemsEveryElement(_, _, _, _)

\* createClass lines 1796-1797: the class is pushed (empty) under its unique
\* name before any of its fields is inferred
pushNamed(g, unique) ==
  [ g    |-> [ g EXCEPT !.usedClassNames = unique.counts,
                        !.classes = Append(@, [ name   |-> unique.name,
                                                fields |-> <<>> ]) ],
    name |-> unique.name ]

\* createClass line 1794: toPascalCase(nameHint) || fallbackName
baseNameOr(pascal, fallbackName) ==
  IF Truthy(pascal) THEN pascal ELSE fallbackName

\* createClass lines 1794-1797
pushClass(g, nameHint, fallbackName, reservedSuffix) ==
  pushNamed(g, uniqueClassName(
                 ensureSafeClassName(baseNameOr(toPascalCase(nameHint),
                                                fallbackName),
                                     reservedSuffix),
                 g.usedClassNames))

\* classDef.fields.push(field), classDef being classes[index]
pushField(g, index, field) ==
  [ g EXCEPT !.classes[index].fields = Append(@, field) ]

\* one turn of the for loop of createClass: the field inferred is pushed
\* and the loop goes on with the entries left
pushInferred(r, index, entries) ==
  createClassFields(pushField(r.g, index, r.field), index, entries,
                    r.fieldNameCounts)

\* the for loop of createClass over Object.entries(obj)
createClassFields(g, index, entries, fieldNameCounts) ==
  IF entries = <<>> THEN g
  ELSE pushInferred(inferField(g, entries[1][1], entries[1][2],
                               fieldNameCounts),
                    index, Tail(entries))

\* createClass lines 1799-1806: the fields of the class just pushed (the last
\* of the list) are filled in and its name is returned
fillClass(pushed, obj) ==
  [ g    |-> createClassFields(pushed.g, Len(pushed.g.classes),
                               ObjectEntries(obj), << >>),
    name |-> pushed.name ]

\* createClass pushing the class only after its fields are inferred
createClassPushLast(g, nameHint, obj, fallbackName, reservedSuffix) ==
  LET pushed == pushClass(g, nameHint, fallbackName, reservedSuffix)
      index  == Len(pushed.g.classes)
      filled == createClassFields(pushed.g, index, ObjectEntries(obj), << >>)
      list   == filled.classes
  IN  [ g    |-> [ filled EXCEPT !.classes =
                     SubSeq(list, 1, index - 1)
                       \o SubSeq(list, index + 1, Len(list))
                       \o << list[index] >> ],
        name |-> pushed.name ]

createClass(g, nameHint, obj, fallbackName, reservedSuffix) ==
  fillClass(pushClass(g, nameHint, fallbackName, reservedSuffix), obj)

\* a ClassField whose required is decided by nullability alone
classFieldRequiredIgnoresDefault(key, uniqueName, fieldType, isNullable, defaultValue) ==
  [ name         |-> uniqueName,
    type         |-> fieldType,
    jsonKey      |-> IF uniqueName # key THEN key ELSE Undefined,
    converter    |-> converterAnnotationFor(fieldType),
    defaultValue |-> defaultValue,
    required     |-> ~isNullable ]

\* inferField lines 1816, 1821, 1827-1834: the ClassField record
classField(key, uniqueName, fieldType, isNullable, defaultValue) ==
  [ name         |-> uniqueName,
    type         |-> fieldType,
    jsonKey      |-> IF uniqueName # key THEN key ELSE Undefined,
    converter    |-> converterAnnotationFor(fieldType),
    defaultValue |-> defaultValue,
    required     |-> ~isNullable /\ ~Truthy(defaultValue) ]

\* the default literal computed whatever options.useDefaultValues is
defaultedWhateverTheFlag(g, key, uniqueName, fieldType, isNullable) ==
  classField(key, uniqueName, fieldType, isNullable,
             defaultValueFor(g, fieldType, isNullable))

\* inferField lines 1823-1825: the default literal of the field
defaulted(g, key, uniqueName, fieldType, isNullable) ==
  classField(key, uniqueName, fieldType, isNullable,
             IF g.options.useDefaultValues
               THEN defaultValueFor(g, fieldType, isNullable)
               ELSE Undefined)

\* inferField line 1820 on: the field of a name and a type
makeField(g, key, uniqueName, fieldType) ==
  defaulted(g, key, uniqueName, fieldType, EndsWith(fieldType, <<"?">>))

\* inferField line 1819 on: the field of a name and an inferred type
typedField(inferred, key, unique) ==
  [ g               |-> inferred.g,
    field           |-> makeField(inferred.g, key, unique.name,
                                  IF inferred.g.options.makeNullable
                                    THEN makeNullable(inferred.type)
                                    ELSE inferred.type),
    fieldNameCounts |-> unique.counts ]

\* inferField line 1814: toCamelCase(key) || 'field', sanitized
baseFieldName(camel) ==
  sanitizeIdentifier(IF Truthy(camel) THEN camel ELSE <<"f","i","e","l","d">>)

inferField(g, key, value, fieldNameCounts) ==
  typedField(inferType(g, key, value), key,
             uniqueFieldName(baseFieldName(toCamelCase(key)), fieldNameCounts))

\* the type of an object: the name of the class created from it
classType(created) == [ g |-> created.g, type |-> created.name ]

\* inferType typing every number as int
inferTypeEveryNumberInt(g, key, value) ==
  IF value.kind = "null" THEN [ g |-> g, type |-> TypeObjectNullable ]
  ELSE IF value.kind = "array" THEN inferArrayType(g, key, value.val)
  ELSE IF value.kind = "object"
    THEN classType(createClass(g, key, value, <<"N","e","s","t","e","d">>, <<"M","o","d","e","l">>))
  ELSE IF value.kind = "string" THEN [ g |-> g, type |-> TypeString ]
  ELSE IF value.kind = "number" THEN [ g |-> g, type |-> TypeInt ]
  ELSE IF value.kind = "boolean" THEN [ g |-> g, type |-> TypeBool ]
  ELSE [ g |-> g, type |-> TypeDynamic ]

inferType(g, key, value) ==
  IF value.kind = "null" THEN [ g |-> g, type |-> TypeObjectNullable ]
  ELSE IF value.kind = "array" THEN inferArrayType(g, key, value.val)
  ELSE IF value.kind = "object"
    THEN classType(createClass(g, key, value, <<"N","e","s","t","e","d">>, <<"M","o","d","e","l">>))
  ELSE IF value.kind = "string" THEN [ g |-> g, type |-> TypeString ]
  ELSE IF value.kind = "number"
    THEN [ g |-> g,
           type |-> IF NumberIsInteger(value) THEN TypeInt ELSE TypeDouble ]
  ELSE IF value.kind = "boolean" THEN [ g |-> g, type |-> TypeBool ]
  ELSE [ g |-> g, type |-> TypeDynamic ]

\* lines 1880-1892: the element type an unresolved scan takes from item
inferElementType(g, key, item) ==
  IF item.kind = "array" THEN inferArrayType(g, key, item.val)
  ELSE IF item.kind = "object"
    THEN classType(createClass(g, singularize(key), item, <<"I","t","e","m">>, <<"I","t","e","m">>))
  ELSE inferType(g, key, item)

\* lines 1881-1894: the scan once an element has given its type
resolvedBy(scan, element) ==
  [ scan EXCEPT !.g = element.g,
                !.elementType = element.type,
                !.resolved = TRUE ]

\* the scan looking at the first element only, null or not
inferArrayItemsFirstOnly(scan, key, values, i) ==
  IF values[1].kind = "null" THEN [ scan EXCEPT !.hasNull = TRUE ]
  ELSE resolvedBy(scan, inferElementType(scan.g, key, values[1]))

\* the scan without its resolved test: every non-null element is inferred
inferArrayItemsEveryElement(scan, key, values, i) ==
  IF i > Len(values) THEN scan
  ELSE IF values[i].kind = "null"
    THEN inferArrayItemsEveryElement([ scan EXCEPT !.hasNull = TRUE ],
                                     key, values, i + 1)
  ELSE inferArrayItemsEveryElement(
         resolvedBy(scan, inferElementType(scan.g, key, values[i])),
         key, values, i + 1)

\* the for loop of inferArrayType; scan is [g, elementType, resolved, hasNull]
inferArrayItems(scan, key, values, i) ==
  IF i > Len(values) THEN scan
  ELSE IF values[i].kind = "null"
    THEN inferArrayItems([ scan EXCEPT !.hasNull = TRUE ], key, values, i + 1)
  ELSE IF ~scan.resolved
    THEN inferArrayItems(
           resolvedBy(scan, inferElementType(scan.g, key, values[i])),
           key, values, i + 1)
  ELSE inferArrayItems(scan, key, values, i + 1)

\* listTypeOf wrapping the element type only when it is a built-in type
listTypeOfClassNeverNullable(scan) ==
  IF ~scan.resolved THEN TypeListDynamic
  ELSE LET elementType ==
             IF scan.hasNull
                  /\ scan.elementType \in { TypeString, TypeInt, TypeDouble,
                                            TypeBool }
               THEN scan.elementType \o <<"?">>
               ELSE scan.elementType
       IN  <<"L","i","s","t","<">> \o elementType \o <<">">>

\* lines 1898-1906: the list type of a finished scan
listTypeOf(scan) ==
  IF ~scan.resolved THEN TypeListDynamic
  ELSE LET elementType ==
             IF scan.hasNull /\ scan.elementType # TypeDynamic
                  /\ ~EndsWith(scan.elementType, <<"?">>)
               THEN scan.elementType \o <<"?">>
               ELSE scan.elementType
       IN  <<"L","i","s","t","<">> \o elementType \o <<">">>

\* lines 1898-1906: what inferArrayType returns after its loop
scanned(scan) == [ g |-> scan.g, type |-> listTypeOf(scan) ]

inferArrayType(g, key, values) ==
  IF Len(values) = 0 THEN [ g |-> g, type |-> TypeListDynamic ]
  ELSE scanned(inferArrayItems([ g           |-> g,
                                 elementType |-> TypeDynamic,
                                 resolved    |-> FALSE,
                                 hasNull     |-> FALSE ],
                               key, values, 1))

(***************************************************************************)
(* Rendering.  A document is the sequence of its lines (the text split at  *)
(* its line breaks), a line the sequence of its characters.                *)
(***************************************************************************)
Indent == <<" "," "," "," ">>

JsonKeyOpen == <<" "," "," "," ","@","J","s","o","n","K","e","y","(","n","a","m","e",":"," ","'">>

JsonKeyClose == <<"'",")">>

DefaultOpen == <<" "," "," "," ","@","D","e","f","a","u","l","t","(">>

DefaultClose == <<")">>

RequiredText == <<"r","e","q","u","i","r","e","d"," ">>

FreezedAnnotation == <<"@","F","r","e","e","z","e","d","(","f","r","o","m","J","s","o","n",":"," ","t","r","u","e",","," ","t","o","J","s","o","n",":"," ","t","r","u","e",")">>

AbstractClass == <<"a","b","s","t","r","a","c","t"," ","c","l","a","s","s"," ">>

WithMixin == <<" ","w","i","t","h"," ","_","$">>

OpenBrace == <<" ","{">>

ConstFactory == <<" "," ","c","o","n","s","t"," ","f","a","c","t","o","r","y"," ">>

OpenParams == <<"(","{">>

CloseParams == <<" "," ","}",")"," ","="," ","_">>

FactoryText == <<" "," ","f","a","c","t","o","r","y"," ">>

FromJsonOpen == <<".","f","r","o","m","J","s","o","n","(","M","a","p","<","S","t","r","i","n","g",","," ","d","y","n","a","m","i","c",">"," ","j","s","o","n",")"," ","=",">"," ","_","$">>

FromJsonClose == <<"F","r","o","m","J","s","o","n","(","j","s","o","n",")",";">>

CloseBrace == <<"}">>

ImportFreezed == <<"i","m","p","o","r","t"," ","'","p","a","c","k","a","g","e",":","f","r","e","e","z","e","d","_","a","n","n","o","t","a","t","i","o","n","/","f","r","e","e","z","e","d","_","a","n","n","o","t","a","t","i","o","n",".","d","a","r","t","'",";">>

ImportOpen == <<"i","m","p","o","r","t"," ","'">>

ImportClose == <<"'",";">>

PartOpen == <<"p","a","r","t"," ","'">>

PartFreezedClose == <<".","f","r","e","e","z","e","d",".","d","a","r","t","'",";">>

PartGClose == <<".","g",".","d","a","r","t","'",";">>

EmptyLine == << >>

\* the lines renderClass pushes for one field (lines 1972-1983)
renderField(field) ==
  (IF Truthy(field.jsonKey)
     THEN << JsonKeyOpen \o escapeDartString(field.jsonKey) \o JsonKeyClose >>
     ELSE << >>)
  \o (IF Truthy(field.converter)
        THEN << Indent \o field.converter >> ELSE << >>)
  \o (IF Truthy(field.defaultValue)
        THEN << DefaultOpen \o field.defaultValue \o DefaultClose >>
        ELSE << >>)
  \o << Indent \o (IF field.required THEN RequiredText ELSE << >>)
          \o field.type \o <<" ">> \o field.name \o <<",">> >>

RECURSIVE renderFields(_)
\* the for loop of renderClass
renderFields(fields) ==
  IF fields = << >> THEN << >>
  ELSE renderField(fields[1]) \o renderFields(Tail(fields))

renderClass(classDef) ==
  << FreezedAnnotation,
     AbstractClass \o classDef.name \o WithMixin \o classDef.name \o OpenBrace,
     ConstFactory \o classDef.name \o OpenParams >>
  \o renderFields(classDef.fields)
  \o << CloseParams \o classDef.name \o <<";">>,
        EmptyLine,
        FactoryText \o classDef.name \o FromJsonOpen \o classDef.name
          \o FromJsonClose,
        CloseBrace >>

RECURSIVE renderBody(_)
\* classes.map(renderClass).join('\n\n')
renderBody(classList) ==
  IF classList = << >> THEN << EmptyLine >>
  ELSE IF Len(classList) = 1 THEN renderClass(classList[1])
  ELSE renderClass(classList[1]) \o << EmptyLine >>
         \o renderBody(Tail(classList))

\* generate line 1776: toSnakeCase(rootName) || 'model'
fileBaseOr(snake) == IF Truthy(snake) THEN snake ELSE <<"m","o","d","e","l">>

\* the lines of the text with the part directives ahead of the imports
documentLinesPartsFirst(fileBase, importPath, classList) ==
  << PartOpen \o fileBase \o PartFreezedClose,
     PartOpen \o fileBase \o PartGClose,
     EmptyLine,
     ImportFreezed,
     ImportOpen \o importPath \o ImportClose,
     EmptyLine >>
  \o renderBody(classList)
  \o << EmptyLine >>

\* generate lines 1777-1785: the lines of the text returned
documentLines(fileBase, importPath, classList) ==
  << ImportFreezed,
     ImportOpen \o importPath \o ImportClose,
     EmptyLine,
     PartOpen \o fileBase \o PartFreezedClose,
     PartOpen \o fileBase \o PartGClose,
     EmptyLine >>
  \o renderBody(classList)
  \o << EmptyLine >>

\* generate lines 1776-1785: the document of the finished class list
renderDocument(g, name, importPath) ==
  documentLines(fileBaseOr(toSnakeCase(name)), importPath, g.classes)

\* generate lines 1776-1785 after the root class is created
rendered(created, name, importPath) ==
  [ g    |-> created.g,
    text |-> renderDocument(created.g, name, importPath) ]

\* generate without this.usedClassNames.clear()
generateKeepsRegistry(g, name, obj, importPath) ==
  rendered(createClass([ g EXCEPT !.classes = << >> ],
                       name, obj, <<"M","o","d","e","l">>, <<"M","o","d","e","l">>),
           name, importPath)

\* generate(rootName, rootObject, converterImportPath): the instance it
\* leaves and the text it returns
generate(g, name, obj, importPath) ==
  rendered(createClass([ g EXCEPT !.classes = << >>,
                                  !.usedClassNames = << >> ],
                       name, obj, <<"M","o","d","e","l">>, <<"M","o","d","e","l">>),
           name, importPath)

(***************************************************************************)
(* Bounds and inputs                                                       *)
(***************************************************************************)
\* the largest number of JSON values (the root included) in a nested root
MaxNodes == 4

\* the largest number of members of a flat root object
MaxKeys == 3

\* the scalar JSON values: null, a string, a boolean, 1.0 and 1.5
Scalars ==
  { JNull, JString(<<"N","Y","C">>), JBool(TRUE), JNumber(10), JNumber(15) }

\* the keys of the members of nested roots
ShapeKeys == { <<"f","o","o">>, <<"f","o","o","2">> }

\* the keys of the members of flat roots
KeyPool ==
  { <<"u","s","e","r","-","i","d">>, <<"u","s","e","r","I","d">>, <<"u","s","e","r","I","d","2">>, << >>, <<"é">>, <<"2">>, <<"l","i","s","t","s">>, <<"c","l","a","s","s">> }

\* the sequences of n distinct keys
KeySeqs(keys, n) ==
  { s \in [ 1..n -> keys ] : \A i, j \in 1..n : i # j => s[i] # s[j] }

RECURSIVE ValuesOfSize(_)
RECURSIVE ListsOfSize(_)
\* the sequences of JSON values that hold n values in all, nested ones counted
ListsOfSize(n) ==
  IF n = 0 THEN { << >> }
  ELSE UNION { { <<v>> \o rest : v \in ValuesOfSize(k),
                                 rest \in ListsOfSize(n - k) } : k \in 1..n }

\* the JSON values that hold n values in all, themselves counted
ValuesOfSize(n) ==
  IF n = 0 THEN { }
  ELSE (IF n = 1 THEN Scalars ELSE { })
       \cup { JArray(items) : items \in ListsOfSize(n - 1) }
       \cup UNION { { JObject([ i \in DOMAIN items |-> <<keys[i], items[i]>> ]) :
                        keys \in KeySeqs(ShapeKeys, Len(items)) } :
                    items \in ListsOfSize(n - 1) }

\* the nested roots: the objects of at most MaxNodes values
ShapeRoots ==
  UNION { { v \in ValuesOfSize(n) : v.kind = "object" } : n \in 1..MaxNodes }

\* what every member of a flat root holds
FlatValues == { JNumber(10), JObject(<< >>), JArray(<< JObject(<< >>) >>) }

\* the flat roots: at most MaxKeys members, all holding the same value
KeyRoots ==
  UNION { { JObject([ i \in 1..n |-> <<keys[i], v>> ]) :
              keys \in KeySeqs(KeyPool, n), v \in FlatValues } :
          n \in 0..MaxKeys }

RootObjects == ShapeRoots \cup KeyRoots

\* the default literals the panel's inputs start with (webview.ts 1249-1265)
PanelDefaults ==
  [ stringValue |-> << >>,
    intValue    |-> <<"0">>,
    doubleValue |-> <<"0",".","0">>,
    boolValue   |-> <<"f","a","l","s","e">>,
    listValue   |-> <<"[","]">> ]

\* GeneratorOptions as the message handler builds them (lines 1589-1599)
OptionsPool ==
  { [ makeNullable |-> n, useDefaultValues |-> d, defaults |-> PanelDefaults ] :
      n \in BOOLEAN, d \in BOOLEAN }

\* the class names the message handler passes on (lines 1541-1568)
handlerClassName(rawClassNameInput) ==
  toPascalCase(ensureEntitySuffix(Trim(rawClassNameInput)))

RawClassNames == { <<"r","o","o","t">> }

RootNames == { handlerClassName(raw) : raw \in RawClassNames }

ConverterImportPaths == { <<".",".","/","g","e","n","e","r","a","t","e","/","j","s","o","n","_","v","a","l","u","e","_","c","o","n","v","e","r","t","e","r",".","d","a","r","t">> }

\* message.fieldConfigs when the panel holds no field (webview.ts 1946: null)
NoFieldConfigs == << >>

\* one UserFieldConfig of the panel's list (webview.ts 1831-1837)
FieldConfig(key, dartName, type, nullable, defaultValue) ==
  [ jsonKey      |-> key,
    dartName     |-> dartName,
    type         |-> type,
    nullable     |-> nullable,
    defaultValue |-> defaultValue ]

\* the root key the panel's list is about
ConfiguredKey == <<"i","d">>

\* the row the panel builds for the key id of the JSON {"id": 1} when its
\* field list is opened (webview.ts 1554-1560): dartName = toCamelCase(key),
\* type int, defaultValue getDefaultForType('int')
PanelRow == FieldConfig(ConfiguredKey, <<"i","d">>, TypeInt, FALSE, <<"0">>)

\* the lists the panel posts: none while its field list was never opened;
\* else the row as built, the row renamed by the user (webview.ts 1798), the
\* row given a default literal by the user (webview.ts 1809).  The JSON text
\* can be retyped after the list was built, so the list is not bound to the
\* root of the message.
FieldConfigsPool ==
  { NoFieldConfigs,
    << PanelRow >>,
    << [ PanelRow EXCEPT !.dartName = <<"i","d","e","n","t","i","f","i","e","r">> ] >>,
    << [ PanelRow EXCEPT !.defaultValue = <<"4","2">> ] >> }

\* texts typed into the five default inputs of the panel
IntTexts == { <<"0">>, <<"4","2">>, <<" ","-","7">>, <<"0","0","7">>, << >>, <<"a","b","c">>, <<"1","2","a","b","c">>, <<"1",".","5">> }

BoolTexts == { <<"f","a","l","s","e">>, <<"t","r","u","e">>, <<" ","T","R","U","E"," ">>, <<"y","e","s">>, << >> }

StringTexts == { << >>, <<"i","t","'","s">> }

DoubleTexts == { <<"0",".","0">>, <<"1",".","5","0">>, <<"x">> }

ListTexts == { <<"[","]">>, << >>, <<"c","o","n","s","t"," ","<","i","n","t",">","[","]">> }

\* the defaults of a message: the panel's, with one input at a time retyped
DefaultsPool ==
  { [ PanelDefaults EXCEPT !.intValue = v ] : v \in IntTexts }
    \cup { [ PanelDefaults EXCEPT !.boolValue = v ] : v \in BoolTexts }
    \cup { [ PanelDefaults EXCEPT !.stringValue = v ] : v \in StringTexts }
    \cup { [ PanelDefaults EXCEPT !.doubleValue = v ] : v \in DoubleTexts }
    \cup { [ PanelDefaults EXCEPT !.listValue = v ] : v \in ListTexts }

\* GeneratorOptions as the message handler builds them (lines 1589-1599),
\* whatever the panel's inputs hold
MessageOptionsPool ==
  { [ makeNullable |-> n, useDefaultValues |-> d, defaults |-> defaults ] :
      n \in BOOLEAN, d \in BOOLEAN, defaults \in DefaultsPool }

\* a root with a member of every kind, the objects under keys whose class
\* names come close to the names of built-in types
TypedRoot ==
  JObject(<< << ConfiguredKey, JNumber(10) >>,
             << <<"n","a","m","e">>, JString(<<"N","Y","C">>) >>,
             << <<"o","k">>, JBool(TRUE) >>,
             << <<"r","a","t","i","o">>, JNumber(15) >>,
             << <<"t","a","g","s">>, JArray(<< JString(<<"N","Y","C">>) >>) >>,
             << <<"n","o","n","e">>, JNull >>,
             << <<"s","t","r","i","n","g">>, JObject(<< >>) >>,
             << <<"i","n","t">>, JObject(<< >>) >>,
             << <<"l","i","s","t","s">>, JArray(<< JObject(<< >>) >>) >> >>)

\* the roots of the messages: the typed root, and a root of one member for
\* each value of a flat root and each scalar
MessageRoots ==
  { TypedRoot }
    \cup { JObject(<< << ConfiguredKey, v >> >>) : v \in Scalars \cup FlatValues }

\* the longest string a casing helper is applied to
MaxCaseLen == 4

CaseAlphabet == { "a", "B", "C", "1", "_" }

RECURSIVE StringsOfLength(_)
StringsOfLength(n) ==
  IF n = 0 THEN { << >> }
  ELSE { <<c>> \o s : c \in CaseAlphabet, s \in StringsOfLength(n - 1) }

CaseStrings == UNION { StringsOfLength(n) : n \in 0..MaxCaseLen }

(***************************************************************************)
(* The generator as a state machine: one FreezedGenerator instance, from   *)
(* its construction through its call of generate.                          *)
(***************************************************************************)
VARIABLES
  options,             \* this.options
  classes,             \* this.classes
  usedClassNames,      \* this.usedClassNames
  phase,               \* "constructed", then "generated"
  rootName,            \* the arguments of the call of generate
  rootObject,
  converterImportPath,
  content,             \* the text generate returned
  fieldConfigs,        \* message.fieldConfigs, as the panel posted it
  caseFn,              \* the casing helper under application, or "none"
  caseInput,           \* the string it was first applied to
  caseOutput,          \* its results so far, one per application
  calls,               \* the calls of generate this instance completed
  fieldNameCounts,     \* a Map<string, number> given to uniqueFieldName
  returned,            \* the names the unique-name functions returned
  panel,               \* the webview panel: "open" or "disposed"
  fs,                  \* the files of the workspace, by path
  requests             \* the invocations of the message handler

vars ==
  << options, classes, usedClassNames, phase, rootName, rootObject,
     converterImportPath, content, fieldConfigs, caseFn, caseInput,
     caseOutput, calls, fieldNameCounts, returned, panel, fs, requests >>

\* the state of the host: the panel, the files, the handler's invocations
hostVars == << panel, fs, requests >>

\* the registry and the results of the unique-name functions called directly
registryVars == << fieldNameCounts, returned >>

\* no casing helper is under application
NoCasing ==
  /\ caseFn = "none"
  /\ caseInput = << >>
  /\ caseOutput = << >>

\* no message was received and no file written; no name was asked for
NoHost ==
  /\ calls = << >>
  /\ fieldNameCounts = << >>
  /\ returned = << >>
  /\ panel = "open"
  /\ fs = << >>
  /\ requests = << >>

\* the instance new FreezedGenerator(opts) leaves, before generate is called
Constructed(opts) ==
  /\ options = opts
  /\ classes = << >>
  /\ usedClassNames = << >>
  /\ phase = "constructed"
  /\ rootName = Undefined
  /\ rootObject = JNull
  /\ converterImportPath = Undefined
  /\ content = << >>

\* new FreezedGenerator(options), lines 1765-1768
Init ==
  /\ \E opts \in OptionsPool : Constructed(opts)
  /\ fieldConfigs = NoFieldConfigs
  /\ NoCasing
  /\ NoHost

\* const content = generator.generate(className, parsed, converterImportPath)
\* (line 1623): the instance and the text as the call left them
Returned(result, name, obj, path) ==
  /\ classes' = result.g.classes
  /\ usedClassNames' = result.g.usedClassNames
  /\ content' = result.text
  /\ phase' = "generated"
  /\ rootName' = name
  /\ rootObject' = obj
  /\ converterImportPath' = path
  /\ calls' = Append(calls, [ rootName |-> name, rootObject |-> obj,
                              converterImportPath |-> path,
                              classes |-> result.g.classes,
                              content |-> result.text ])
  /\ UNCHANGED << options, fieldConfigs, caseFn, caseInput, caseOutput,
                  registryVars, hostVars >>

GenerateWith(name, obj, path) ==
  Returned(generate([ options        |-> options,
                      classes        |-> classes,
                      usedClassNames |-> usedClassNames ],
                    name, obj, path),
           name, obj, path)

\* the one call a handler makes on the instance it constructed
Generate ==
  /\ phase = "constructed"
  /\ \E name \in RootNames, obj \in RootObjects, path \in ConverterImportPaths :
       GenerateWith(name, obj, path)

Next == Generate

Spec == Init /\ [][Next]_vars

(***************************************************************************)
(* The message handler on the messages the panel can post: any options,   *)
(* any list of field configurations.                                       *)
(***************************************************************************)
\* lines 1589-1622: the options of the message, its fieldConfigs unread
MessageInit ==
  /\ \E opts \in MessageOptionsPool : Constructed(opts)
  /\ fieldConfigs \in FieldConfigsPool
  /\ NoCasing
  /\ NoHost

\* line 1623: the handler's call of generate; message.fieldConfigs is no
\* argument of it
GenerateMessage ==
  /\ phase = "constructed"
  /\ \E name \in RootNames, obj \in MessageRoots, path \in ConverterImportPaths :
       GenerateWith(name, obj, path)

MessageNext == GenerateMessage

MessageSpec == MessageInit /\ [][MessageNext]_vars

(***************************************************************************)
(* The casing helpers of utils.ts applied to a string, then to their own  *)
(* results.                                                                *)
(***************************************************************************)
\* the times a helper is applied in a row
MaxApplications == 2

CasingInit ==
  /\ options = [ makeNullable |-> FALSE, useDefaultValues |-> FALSE,
                 defaults |-> PanelDefaults ]
  /\ classes = << >>
  /\ usedClassNames = << >>
  /\ phase = "utils"
  /\ rootName = Undefined
  /\ rootObject = JNull
  /\ converterImportPath = Undefined
  /\ content = << >>
  /\ fieldConfigs = NoFieldConfigs
  /\ caseFn = "none"
  /\ caseInput \in CaseStrings
  /\ caseOutput = << >>
  /\ NoHost

\* the string the next application takes
CaseArgument ==
  IF caseOutput = << >> THEN caseInput ELSE caseOutput[Len(caseOutput)]

\* one more application of the helper fn, whose result is result
Applied(fn, result) ==
  /\ phase = "utils"
  /\ caseFn \in { "none", fn }
  /\ Len(caseOutput) < MaxApplications
  /\ caseFn' = fn
  /\ caseOutput' = Append(caseOutput, result)
  /\ UNCHANGED << options, classes, usedClassNames, phase, rootName,
                  rootObject, converterImportPath, content, fieldConfigs,
                  caseInput, calls, registryVars, hostVars >>

ApplyPascalCase == Applied("toPascalCase", toPascalCase(CaseArgument))

ApplyCamelCase == Applied("toCamelCase", toCamelCase(CaseArgument))

ApplySnakeCase == Applied("toSnakeCase", toSnakeCase(CaseArgument))

CasingNext == ApplyPascalCase \/ ApplyCamelCase \/ ApplySnakeCase

CasingSpec == CasingInit /\ [][CasingNext]_vars

(***************************************************************************)
(* One generator instance whose generate is called again and again.        *)
(***************************************************************************)
\* the calls of generate made on one instance
MaxCalls == 2

RepeatNames == { handlerClassName(raw) : raw \in { <<"r","o","o","t">>, <<"f","o","o">> } }

\* roots whose classes share base names with each other and with the roots
RepeatRoots ==
  { JObject(<< >>),
    JObject(<< << <<"i","d">>, JNumber(10) >> >>),
    JObject(<< << <<"f","o","o">>, JObject(<< >>) >>,
               << <<"f","o","o","2">>, JObject(<< >>) >> >>),
    JObject(<< << <<"f","o","o">>, JArray(<< JObject(<< >>) >>) >> >>),
    JObject(<< << <<"r","o","o","t","_","e","n","t","i","t","y">>,
                  JObject(<< << <<"i","d">>, JNull >> >>) >> >>) }

RepeatGenerate ==
  /\ phase \in { "constructed", "generated" }
  /\ Len(calls) < MaxCalls
  /\ \E name \in RepeatNames, obj \in RepeatRoots, path \in ConverterImportPaths :
       GenerateWith(name, obj, path)

RepeatNext == RepeatGenerate

RepeatSpec == Init /\ [][RepeatNext]_vars

(***************************************************************************)
(* uniqueFieldName and uniqueClassName called again and again, each on its *)
(* own registry.                                                           *)
(***************************************************************************)
\* the calls made on the registries
MaxNameCalls == 4

\* base names, one of which is another followed by a count
BaseNames == { <<"F","o","o">>, <<"F","o","o","2">>, <<"i","d">> }

\* a call of fn with base returned result
NameReturned(fn, base, result) ==
  /\ returned' = Append(returned, [ fn |-> fn, base |-> base,
                                    name |-> result.name ])
  /\ UNCHANGED << options, classes, phase, rootName, rootObject,
                  converterImportPath, content, fieldConfigs, caseFn,
                  caseInput, caseOutput, calls, hostVars >>

\* const name = uniqueFieldName(base, counts) on one Map
CallUniqueFieldName ==
  /\ phase = "constructed"
  /\ Len(returned) < MaxNameCalls
  /\ \E base \in BaseNames :
       /\ fieldNameCounts' = uniqueFieldName(base, fieldNameCounts).counts
       /\ NameReturned("uniqueFieldName", base,
                       uniqueFieldName(base, fieldNameCounts))
  /\ UNCHANGED usedClassNames

\* const name = this.uniqueClassName(base) on this.usedClassNames
CallUniqueClassName ==
  /\ phase = "constructed"
  /\ Len(returned) < MaxNameCalls
  /\ \E base \in BaseNames :
       /\ usedClassNames' = uniqueClassName(base, usedClassNames).counts
       /\ NameReturned("uniqueClassName", base,
                       uniqueClassName(base, usedClassNames))
  /\ UNCHANGED fieldNameCounts

RegistryNext == CallUniqueFieldName \/ CallUniqueClassName

RegistrySpec == Init /\ [][RegistryNext]_vars

(***************************************************************************)
(* Reading a state: the input's walk and the document's lines              *)
(***************************************************************************)
Generated == phase = "generated"

\* the non-null elements of an array, in order
NonNullItems(items) == SelectSeq(items, LAMBDA v : v.kind # "null")

RECURSIVE WalkObject(_)
RECURSIVE WalkMembers(_)
RECURSIVE WalkValue(_)
\* the objects the walk reaches, in depth-first pre-order: an object, then
\* what each of its members reaches, in the order Object.entries gives them
WalkObject(obj) == <<obj>> \o WalkMembers(ObjectEntries(obj))

WalkMembers(entries) ==
  IF entries = << >> THEN << >>
  ELSE WalkValue(entries[1][2]) \o WalkMembers(Tail(entries))

\* an object member is entered; of an array, only its first non-null element
WalkValue(value) ==
  IF value.kind = "object" THEN WalkObject(value)
  ELSE IF value.kind = "array"
    THEN IF NonNullItems(value.val) = << >> THEN << >>
         ELSE WalkValue(NonNullItems(value.val)[1])
  ELSE << >>

\* the keys of an object, in the order Object.entries gives them
KeysOf(obj) == [ i \in DOMAIN obj.val |-> ObjectEntries(obj)[i][1] ]

RECURSIVE Flatten(_)
Flatten(seqs) ==
  IF seqs = << >> THEN << >> ELSE Head(seqs) \o Flatten(Tail(seqs))

\* every field record of the class list, class by class
AllFields == Flatten([ i \in DOMAIN classes |-> classes[i].fields ])

\* the JSON key of every field the walk of the root infers, object by object
AllKeys ==
  IF rootObject.kind = "object"
    THEN LET walk == WalkObject(rootObject)
         IN  Flatten([ i \in DOMAIN walk |-> KeysOf(walk[i]) ])
    ELSE << >>

\* the key a field record was inferred from, as the record itself tells it
OriginalKey(field) ==
  IF field.jsonKey # Undefined THEN field.jsonKey ELSE field.name

IdentStartChars == LowerChars \cup UpperChars \cup {"_"}

IdentPartChars == IdentStartChars \cup DigitChars

\* [A-Za-z_][A-Za-z0-9_]*
IsIdentifier(s) ==
  /\ s # << >>
  /\ s[1] \in IdentStartChars
  /\ \A i \in DOMAIN s : s[i] \in IdentPartChars

\* the positions of the lines of a document that satisfy Test
LinesWhere(doc, Test(_)) == { i \in DOMAIN doc : Test(doc[i]) }

\* the members of a set of positions, ascending
RECURSIVE Ascending(_)
Ascending(positions) ==
  IF positions = { } THEN << >>
  ELSE LET least == CHOOSE p \in positions : \A q \in positions : p <= q
       IN  <<least>> \o Ascending(positions \ {least})

\* a constructor parameter line: indented, no annotation, ends in a comma
IsParameterLine(line) ==
  /\ StartsWith(line, Indent)
  /\ ~StartsWith(line, Indent \o <<"@">>)
  /\ line[Len(line)] = ","

IsAnnotationLine(line) == StartsWith(line, Indent \o <<"@">>)

IsClassHeaderLine(line) == StartsWith(line, AbstractClass)

\* the positions of the parameter lines of the document, in order
ParameterLines == Ascending(LinesWhere(content, IsParameterLine))

\* the annotation lines that directly precede the line at position p
AnnotationsBefore(p) ==
  { content[q] : q \in { q \in 1..(p - 1) :
      \A r \in q..(p - 1) : IsAnnotationLine(content[r]) } }

\* the class name a declaration header line declares
DeclaredName(line) ==
  LET rest == SubSeq(line, Len(AbstractClass) + 1, Len(line))
      stop == CHOOSE i \in DOMAIN rest :
                rest[i] = " " /\ \A j \in 1..(i - 1) : rest[j] # " "
  IN  SubSeq(rest, 1, stop - 1)

\* the class names the document declares, in order
DeclaredNames ==
  LET headers == Ascending(LinesWhere(content, IsClassHeaderLine))
  IN  [ i \in DOMAIN headers |-> DeclaredName(content[headers[i]]) ]

(***************************************************************************)
(* Claims                                                                  *)
(***************************************************************************)
\* C1: no two class records produced by one generate call have the same name
C1_ClassNamesUnique ==
  \A i, j \in DOMAIN classes : i # j => classes[i].name # classes[j].name

\* C2: within every class record no two fields have the same name
C2_FieldNamesUnique ==
  \A c \in DOMAIN classes :
    \A i, j \in DOMAIN classes[c].fields :
      i # j => classes[c].fields[i].name # classes[c].fields[j].name

\* C3: for every field, required is true exactly when the declared type is
\* not nullable and there is no default literal, and the rendered parameter
\* line carries the `required` marker exactly when required is true
C3_RequiredIffNotNullableNoDefault ==
  Generated =>
    /\ Len(ParameterLines) = Len(AllFields)
    /\ \A k \in DOMAIN AllFields :
         LET field == AllFields[k]
             line  == content[ParameterLines[k]]
         IN  /\ field.required
                  <=> (~EndsWith(field.type, <<"?">>)
                         /\ field.defaultValue = Undefined)
             /\ StartsWith(line, Indent \o RequiredText) <=> field.required
             /\ EndsWith(line, field.type \o <<" ">> \o field.name \o <<",">>)

\* C3 witness: with defaults on and nullable off, a field that is required
\* (a class reference, no default) next to one that is not (it has a default)
C3_Witness ==
  /\ Generated
  /\ options.useDefaultValues /\ ~options.makeNullable
  /\ \E i, j \in DOMAIN AllFields :
       /\ AllFields[i].required
       /\ ~AllFields[j].required /\ AllFields[j].defaultValue # Undefined

\* C4: the parameter of a field is preceded by a serialized-key annotation
\* carrying the field's original JSON key exactly when the field's name
\* differs from that key
C4_KeyAnnotationIffRenamed ==
  Generated =>
    /\ Len(ParameterLines) = Len(AllFields)
    /\ Len(AllKeys) = Len(AllFields)
    /\ \A k \in DOMAIN AllFields :
         (JsonKeyOpen \o escapeDartString(AllKeys[k]) \o JsonKeyClose
            \in AnnotationsBefore(ParameterLines[k]))
           <=> AllFields[k].name # AllKeys[k]

\* C5: the number of class declarations in the output is 1 plus the number
\* of object values the walk reaches below the root, the walk entering every
\* object-valued member and, of each array at any depth of arrays, only its
\* first non-null element
C5_ClassCountIsWalkCount ==
  Generated =>
    Len(DeclaredNames) = 1 + Len(WalkMembers(ObjectEntries(rootObject)))

\* C5 witness: an array whose first non-null element comes after a null and
\* is an object, which the walk counts and the output declares
C5_Witness ==
  /\ Generated
  /\ Len(DeclaredNames) = 2
  /\ \E m \in DOMAIN rootObject.val :
       LET value == rootObject.val[m][2] IN
         /\ value.kind = "array" /\ Len(value.val) = 2
         /\ value.val[1].kind = "null"
         /\ value.val[2].kind = "object"

\* C6: the class list is in depth-first pre-order (the root first, a class
\* before the classes of the values nested in it, the classes under an
\* earlier key before those under a later key), and the document declares
\* the classes in that order
C6_ClassesInPreOrder ==
  Generated =>
    LET walk == WalkObject(rootObject) IN
      /\ [ i \in DOMAIN classes |->
             [ k \in DOMAIN classes[i].fields |->
                 OriginalKey(classes[i].fields[k]) ] ]
           = [ i \in DOMAIN walk |-> KeysOf(walk[i]) ]
      /\ DeclaredNames = [ i \in DOMAIN classes |-> classes[i].name ]

\* C6 witness: the first member of the root holds an object nested in an
\* object, the second member another object
C6_Witness ==
  /\ Generated
  /\ Len(rootObject.val) = 2
  /\ LET entries == ObjectEntries(rootObject) IN
       /\ Len(WalkValue(entries[1][2])) = 2
       /\ Len(WalkValue(entries[2][2])) = 1
  /\ Len(classes) = 4

\* C7: given a root name that is an identifier, every class name and every
\* field name matches [A-Za-z_][A-Za-z0-9_]*
C7_NamesAreIdentifiers ==
  (Generated /\ IsIdentifier(rootName)) =>
    \A c \in DOMAIN classes :
      /\ IsIdentifier(classes[c].name)
      /\ \A k \in DOMAIN classes[c].fields :
           IsIdentifier(classes[c].fields[k].name)

\* C7 witness: objects under the empty key, under a key of one non-ASCII
\* character and under a key that starts with a digit
C7_Witness ==
  /\ Generated /\ IsIdentifier(rootName)
  /\ \A key \in { << >>, <<"é">>, <<"2">> } :
       \E m \in DOMAIN rootObject.val :
         /\ rootObject.val[m][1] = key
         /\ rootObject.val[m][2].kind = "object"

\* the type inferField declares for a value of inferred type t
DeclaredAs(t) ==
  IF options.makeNullable /\ ~EndsWith(t, <<"?">>) THEN t \o <<"?">> ELSE t

\* C8: inferType maps null to Object?, a string to String, a boolean to
\* bool, a number with no fractional part to int, any other number to
\* double, an object to the name of a class created for it, and an array to
\* a list type (seen at the fields of the root class)
C8_InferTypeByKind ==
  Generated =>
    LET entries == ObjectEntries(rootObject)
        fields  == classes[1].fields
    IN  /\ Len(fields) = Len(entries)
        /\ \A k \in DOMAIN entries :
             LET value == entries[k][2]
                 type  == fields[k].type
             IN  CASE value.kind = "null" -> type = <<"O","b","j","e","c","t","?">>
                   [] value.kind = "string" ->
                        type = DeclaredAs(<<"S","t","r","i","n","g">>)
                   [] value.kind = "boolean" ->
                        type = DeclaredAs(<<"b","o","o","l">>)
                   [] value.kind = "number" /\ value.val % 10 = 0 ->
                        type = DeclaredAs(<<"i","n","t">>)
                   [] value.kind = "number" /\ value.val % 10 # 0 ->
                        type = DeclaredAs(<<"d","o","u","b","l","e">>)
                   [] value.kind = "object" ->
                        \E c \in 2..Len(classes) :
                          /\ type = DeclaredAs(classes[c].name)
                          /\ Len(classes[c].fields) = Len(value.val)
                   [] value.kind = "array" ->
                        /\ StartsWith(type, <<"L","i","s","t","<">>)
                        /\ EndsWith(StripNullable(type), <<">">>)

\* C8 witness: a root that holds 1.0 (an int) next to 1.5 (a double)
C8_Witness ==
  /\ Generated
  /\ Len(classes[1].fields) = 2
  /\ \E i, j \in DOMAIN rootObject.val :
       /\ rootObject.val[i][2] = JNumber(10)
       /\ rootObject.val[j][2] = JNumber(15)

RECURSIVE TrimValue(_)
RECURSIVE TrimItems(_, _)
\* a value with every array cut down to its null elements and its first
\* non-null element
TrimValue(value) ==
  IF value.kind = "array" THEN JArray(TrimItems(value.val, FALSE))
  ELSE IF value.kind = "object"
    THEN JObject([ i \in DOMAIN value.val |->
                     << value.val[i][1], TrimValue(value.val[i][2]) >> ])
  ELSE value

TrimItems(items, seen) ==
  IF items = << >> THEN << >>
  ELSE IF items[1].kind = "null"
    THEN << items[1] >> \o TrimItems(Tail(items), seen)
  ELSE IF seen THEN TrimItems(Tail(items), TRUE)
  ELSE << TrimValue(items[1]) >> \o TrimItems(Tail(items), TRUE)

RECURSIVE CountObjects(_)
RECURSIVE CountObjectsIn(_)
\* the objects a value holds, itself counted, at any depth
CountObjects(value) ==
  IF value.kind = "object"
    THEN 1 + CountObjectsIn([ i \in DOMAIN value.val |-> value.val[i][2] ])
  ELSE IF value.kind = "array" THEN CountObjectsIn(value.val)
  ELSE 0

CountObjectsIn(values) ==
  IF values = << >> THEN 0
  ELSE CountObjects(values[1]) + CountObjectsIn(Tail(values))

\* C9: the elements after the first non-null element of an array change
\* neither a type nor the class list: the call returns what it returns for
\* the root with those elements removed, so an array level adds at most one
\* class
C9_FirstNonNullElementDecides ==
  Generated =>
    LET fresh   == [ options |-> options, classes |-> << >>,
                     usedClassNames |-> << >> ]
        trimmed == generate(fresh, rootName, TrimValue(rootObject),
                            converterImportPath)
    IN  /\ classes = trimmed.g.classes
        /\ content = trimmed.text
        /\ Len(classes) = CountObjects(TrimValue(rootObject))

\* C9 witness: an array whose second non-null element is an object of
\* another shape than its first
C9_Witness ==
  /\ Generated
  /\ \E m \in DOMAIN rootObject.val :
       LET value == rootObject.val[m][2] IN
         /\ value.kind = "array" /\ Len(value.val) = 2
         /\ value.val[1].kind # "null"
         /\ value.val[2].kind = "object"
         /\ value.val[1] # value.val[2]

\* the element type of a list type
ListElementType(type) == SubSeq(type, 6, Len(type) - 1)

RECURSIVE NullableElementOnlyForNull(_, _)
\* of the list type inferred for an array, and of the list types nested in
\* it: with no non-null element the element type is dynamic; otherwise it
\* ends in one nullable marker when the array holds a null and in none when
\* it does not
NullableElementOnlyForNull(type, items) ==
  LET element == ListElementType(type)
      nonNull == NonNullItems(items)
      hasNull == \E i \in DOMAIN items : items[i].kind = "null"
  IN  /\ StartsWith(type, <<"L","i","s","t","<">>)
      /\ EndsWith(type, <<">">>)
      /\ IF nonNull = << >> THEN element = <<"d","y","n","a","m","i","c">>
         ELSE /\ EndsWith(element, <<"?">>) <=> hasNull
              /\ ~EndsWith(element, <<"?","?">>)
              /\ nonNull[1].kind = "array" =>
                   NullableElementOnlyForNull(StripNullable(element),
                                              nonNull[1].val)

\* C10: an array that holds a null, before or after its first non-null
\* element, gets its element type wrapped as nullable exactly once, and an
\* array without a null gets no nullable element type (seen at the array
\* members of the root, with the nullable marker of the field removed)
C10_NullableElementIffNull ==
  Generated =>
    LET entries == ObjectEntries(rootObject)
        fields  == classes[1].fields
    IN  /\ Len(fields) = Len(entries)
        /\ \A k \in DOMAIN entries :
             entries[k][2].kind = "array" =>
               NullableElementOnlyForNull(
                 IF options.makeNullable THEN StripNullable(fields[k].type)
                                         ELSE fields[k].type,
                 entries[k][2].val)

\* C10 witness: an object followed by a null, typed as a list of a nullable
\* class reference
C10_Witness ==
  /\ Generated /\ ~options.makeNullable
  /\ \E m \in DOMAIN rootObject.val :
       /\ rootObject.val[m][2] = JArray(<< JObject(<< >>), JNull >>)
       /\ \E k \in DOMAIN classes[1].fields :
            /\ OriginalKey(classes[1].fields[k]) = rootObject.val[m][1]
            /\ classes[1].fields[k].type
                 = <<"L","i","s","t","<">> \o classes[2].name \o <<"?",">">>

\* the lines of the document that are default-value annotations
DefaultAnnotationLines ==
  { i \in DOMAIN content : StartsWith(content[i], DefaultOpen) }

\* C11: when useDefaultValues is false, no field of any class has a default
\* literal and the document has no default-value annotation, whatever the
\* five configured default strings are
C11_NoDefaultsWhenDisabled ==
  (Generated /\ ~options.useDefaultValues) =>
    /\ \A k \in DOMAIN AllFields : AllFields[k].defaultValue = Undefined
    /\ DefaultAnnotationLines = { }

\* C11 witness: defaults are disabled, the int default is configured as 42
\* and the root has fields of every kind
C11_Witness ==
  /\ Generated
  /\ ~options.useDefaultValues /\ ~options.makeNullable
  /\ options.defaults.intValue = <<"4","2">>
  /\ rootObject = TypedRoot

\* the names of the class list
ClassNames == { classes[i].name : i \in DOMAIN classes }

\* a field whose type is a class reference or the untyped type
IsClassRefOrUntyped(field) ==
  \/ StripNullable(field.type) \in ClassNames
  \/ StripNullable(field.type) \in { <<"O","b","j","e","c","t">>, TypeDynamic }

\* C12: a field whose type is a class reference or the untyped type, nullable
\* or not, has no default literal and no default-value annotation, also when
\* useDefaultValues is true and whatever the name of the class is
C12_NoDefaultForClassRefOrUntyped ==
  Generated =>
    /\ Len(ParameterLines) = Len(AllFields)
    /\ \A k \in DOMAIN AllFields :
         IsClassRefOrUntyped(AllFields[k]) =>
           /\ AllFields[k].defaultValue = Undefined
           /\ \A line \in AnnotationsBefore(ParameterLines[k]) :
                ~StartsWith(line, DefaultOpen)

\* C12 witness: defaults are enabled and the root holds objects under the
\* keys string and int, whose classes are StringModel and Int, and a null
C12_Witness ==
  /\ Generated
  /\ options.useDefaultValues
  /\ rootObject = TypedRoot
  /\ { <<"S","t","r","i","n","g","M","o","d","e","l">>, <<"I","n","t">>, <<"L","i","s","t","I","t","e","m">> } \subseteq ClassNames
  /\ \E k \in DOMAIN AllFields : AllFields[k].type = TypeObjectNullable
  /\ \E k \in DOMAIN AllFields : AllFields[k].defaultValue # Undefined

\* a text that is an integer: an optional sign and decimal digits, blanks
\* around them left aside
IsIntegerText(text) ==
  LET digits == Unsigned(Trim(text))
  IN  /\ digits # << >>
      /\ \A i \in DOMAIN digits : digits[i] \in DigitChars

\* the default literal an int field is to have
ExpectedIntDefault(text) ==
  IF IsIntegerText(text) THEN ParseIntToString(text) ELSE <<"0">>

\* the default literal a bool field is to have
ExpectedBoolDefault(text) ==
  LET raw == ToLowerCase(Trim(text))
  IN  IF raw \in { <<"t","r","u","e">>, <<"f","a","l","s","e">> } THEN raw ELSE <<"f","a","l","s","e">>

\* C13: with defaults enabled, the default literal of an int field is the
\* configured value when the configured text is an integer and 0 when it is
\* not (empty, abc, 12abc, 1.5); that of a bool field is true or false when
\* the trimmed, case-folded text is one of these and false otherwise
C13_UnparsableDefaultsFallBack ==
  (Generated /\ options.useDefaultValues) =>
    \A k \in DOMAIN AllFields :
      /\ StripNullable(AllFields[k].type) = TypeInt =>
           AllFields[k].defaultValue
             = ExpectedIntDefault(options.defaults.intValue)
      /\ StripNullable(AllFields[k].type) = TypeBool =>
           AllFields[k].defaultValue
             = ExpectedBoolDefault(options.defaults.boolValue)

\* the coercion annotation of a type: that of its kind when the type, an
\* outer nullable marker removed, is String, int, double or bool
ExpectedConverter(type) ==
  LET base == StripNullable(type)
  IN  IF base = TypeString THEN <<"@","S","t","r","i","n","g","J","s","o","n","C","o","n","v","e","r","t","e","r","(",")">>
      ELSE IF base = TypeInt THEN <<"@","I","n","t","J","s","o","n","C","o","n","v","e","r","t","e","r","(",")">>
      ELSE IF base = TypeDouble THEN <<"@","D","o","u","b","l","e","J","s","o","n","C","o","n","v","e","r","t","e","r","(",")">>
      ELSE IF base = TypeBool THEN <<"@","B","o","o","l","J","s","o","n","C","o","n","v","e","r","t","e","r","(",")">>
      ELSE Undefined

\* a rendered coercion annotation
IsConverterLine(line) == EndsWith(line, <<"J","s","o","n","C","o","n","v","e","r","t","e","r","(",")">>)

\* C14: a field has a coercion annotation exactly when its type, an outer
\* nullable marker removed, is String, int, double or bool, the annotation
\* being that of the kind; list-typed, class-reference and untyped fields
\* have none; the document carries the annotation of the record
C14_ConverterIffPrimitive ==
  Generated =>
    /\ Len(ParameterLines) = Len(AllFields)
    /\ \A k \in DOMAIN AllFields :
         /\ AllFields[k].converter = ExpectedConverter(AllFields[k].type)
         /\ { line \in AnnotationsBefore(ParameterLines[k]) :
                IsConverterLine(line) }
              = IF ExpectedConverter(AllFields[k].type) = Undefined
                  THEN { }
                  ELSE { Indent \o ExpectedConverter(AllFields[k].type) }

\* C14 witness: nullable fields of the four primitive kinds next to a list,
\* a null and class references
C14_Witness ==
  /\ Generated
  /\ options.makeNullable
  /\ rootObject = TypedRoot
  /\ { <<"S","t","r","i","n","g","?">>, <<"i","n","t","?">>, <<"d","o","u","b","l","e","?">>, <<"b","o","o","l","?">>, <<"L","i","s","t","<","S","t","r","i","n","g",">","?">>,
       <<"O","b","j","e","c","t","?">>, <<"S","t","r","i","n","g","M","o","d","e","l","?">>, <<"L","i","s","t","<","L","i","s","t","I","t","e","m",">","?">> }
       \subseteq { AllFields[k].type : k \in DOMAIN AllFields }

\* the JSON value of every field the walk of the root infers, object by
\* object, in step with AllFields
AllValues ==
  IF rootObject.kind = "object"
    THEN LET walk == WalkObject(rootObject)
         IN  Flatten([ i \in DOMAIN walk |->
               [ j \in DOMAIN walk[i].val |-> ObjectEntries(walk[i])[j][2] ] ])
    ELSE << >>

\* a type with two nullable markers in a row
HasDoubledMarker(type) ==
  \E i \in 1..(Len(type) - 1) : type[i] = "?" /\ type[i + 1] = "?"

\* C15: when makeNullable is true every field of every class has a nullable
\* type and is not required; no type has a doubled nullable marker; when
\* makeNullable is false a field is nullable only if its JSON value is null
C15_MakeNullableWrapsOnce ==
  Generated =>
    /\ Len(AllValues) = Len(AllFields)
    /\ \A k \in DOMAIN AllFields :
         /\ ~HasDoubledMarker(AllFields[k].type)
         /\ options.makeNullable =>
              EndsWith(AllFields[k].type, <<"?">>) /\ ~AllFields[k].required
         /\ ~options.makeNullable =>
              (EndsWith(AllFields[k].type, <<"?">>)
                 => AllValues[k].kind = "null")

\* C15 witness: makeNullable is true and a nested class has a field whose
\* value is null (already nullable) next to the root's class-typed field
C15_Witness ==
  /\ Generated
  /\ options.makeNullable
  /\ Len(classes) >= 2
  /\ \E k \in DOMAIN classes[2].fields :
       classes[2].fields[k].type = TypeObjectNullable
  /\ \E k \in DOMAIN classes[1].fields :
       classes[1].fields[k].type = classes[2].name \o <<"?">>

\* the positions of the root object's members whose key is key, in the order
\* Object.entries gives them, which is the order of the root class's fields
RootPositionsOf(key) ==
  { k \in DOMAIN KeysOf(rootObject) : KeysOf(rootObject)[k] = key }

\* C16: when an override of the message's field list supplies a target
\* identifier for a root key, the root class field of that key is named
\* sanitizeIdentifier(target identifier), made unique, not the camelCase of
\* the key
C16_OverrideNamesRootField ==
  Generated =>
    \A i \in DOMAIN fieldConfigs :
      \A k \in RootPositionsOf(fieldConfigs[i].jsonKey) :
        StartsWith(classes[1].fields[k].name,
                   sanitizeIdentifier(fieldConfigs[i].dartName))

\* C17: when an override of the message's field list supplies a non-blank
\* default literal for a root key, the root class field of that key has that
\* literal as its default, also when useDefaultValues is false
C17_OverrideDefaultVerbatim ==
  Generated =>
    \A i \in DOMAIN fieldConfigs :
      Trim(fieldConfigs[i].defaultValue) # << >> =>
        \A k \in RootPositionsOf(fieldConfigs[i].jsonKey) :
          classes[1].fields[k].defaultValue = fieldConfigs[i].defaultValue

\* the positions of the lines that open and that close a class declaration
DeclarationStarts ==
  Ascending({ i \in DOMAIN content : content[i] = FreezedAnnotation })

DeclarationEnds ==
  Ascending({ i \in DOMAIN content : content[i] = CloseBrace })

\* C18: the document is, in this order, the annotation-library import, the
\* import of the given converter path, the part directives <stem>.freezed.dart
\* and <stem>.g.dart with stem the snake case of the root class name, then one
\* declaration per class record, with nothing but blank lines between them
C18_DocumentOrder ==
  Generated =>
    /\ Len(content) >= 6
    /\ content[1] = ImportFreezed
    /\ content[2] = ImportOpen \o converterImportPath \o ImportClose
    /\ content[3] = EmptyLine
    /\ content[4] = PartOpen \o toSnakeCase(rootName) \o PartFreezedClose
    /\ content[5] = PartOpen \o toSnakeCase(rootName) \o PartGClose
    /\ content[6] = EmptyLine
    /\ Len(DeclarationStarts) = Len(classes)
    /\ Len(DeclarationEnds) = Len(classes)
    /\ DeclarationStarts[1] = 7
    /\ \A i \in DOMAIN classes :
         /\ DeclarationStarts[i] < DeclarationEnds[i]
         /\ content[DeclarationStarts[i] + 1]
              = AbstractClass \o classes[i].name \o WithMixin
                  \o classes[i].name \o OpenBrace
         /\ content[DeclarationEnds[i] + 1] = EmptyLine
         /\ IF i < Len(classes)
              THEN DeclarationStarts[i + 1] = DeclarationEnds[i] + 2
              ELSE Len(content) = DeclarationEnds[i] + 1

\* C18 witness: a document of three declarations whose part directives name
\* root_entity
C18_Witness ==
  /\ Generated
  /\ Len(classes) = 3
  /\ content[4] = <<"p","a","r","t"," ","'","r","o","o","t","_","e","n","t","i","t","y",".","f","r","e","e","z","e","d",".","d","a","r","t","'",";">>
  /\ content[5] = <<"p","a","r","t"," ","'","r","o","o","t","_","e","n","t","i","t","y",".","g",".","d","a","r","t","'",";">>

\* the positions of the parameter lines of the i-th declaration
ParameterLinesOf(i) ==
  Ascending({ p \in DeclarationStarts[i]..DeclarationEnds[i] :
                IsParameterLine(content[p]) })

\* C19: each class declaration has exactly one parameter line per field
\* record, carrying that record's type and name unchanged, and the fields are
\* in the insertion order of the source object's keys
C19_FieldsInInsertionOrder ==
  Generated =>
    LET walk == WalkObject(rootObject) IN
      /\ Len(walk) = Len(classes)
      /\ Len(DeclarationStarts) = Len(classes)
      /\ \A i \in DOMAIN classes :
           /\ Len(ParameterLinesOf(i)) = Len(classes[i].fields)
           /\ Len(walk[i].val) = Len(classes[i].fields)
           /\ \A k \in DOMAIN classes[i].fields :
                /\ EndsWith(content[ParameterLinesOf(i)[k]],
                            <<" ">> \o classes[i].fields[k].type \o <<" ">>
                              \o classes[i].fields[k].name \o <<",">>)
                /\ OriginalKey(classes[i].fields[k]) = walk[i].val[k][1]

\* C20: toPascalCase, toCamelCase and toSnakeCase are idempotent: applied to
\* its own result, each gives that result again
C20_CasingIdempotent ==
  Len(caseOutput) >= 2 =>
    \A n \in 2..Len(caseOutput) : caseOutput[n] = caseOutput[1]

\* C20 witness: toSnakeCase applied twice to a string it changes
C20_Witness ==
  /\ caseFn = "toSnakeCase"
  /\ caseInput = <<"a", "B", "_", "C">>
  /\ caseOutput = << <<"a","_","b","_","c">>, <<"a","_","b","_","c">> >>

\* C21: the result of each of toPascalCase, toCamelCase and toSnakeCase is
\* empty or does not start with a digit
C21_NoLeadingDigit ==
  \A n \in DOMAIN caseOutput :
    caseOutput[n] = << >> \/ caseOutput[n][1] \notin DigitChars

\* what the i-th call of generate returns on an instance constructed anew
\* with the same options
OnFreshInstance(i) ==
  generate([ options |-> options, classes |-> << >>, usedClassNames |-> << >> ],
           calls[i].rootName, calls[i].rootObject, calls[i].converterImportPath)

\* C22: generate keeps no state between invocations: every call on an
\* instance returns the text and leaves the class list that the same call
\* returns and leaves on a fresh instance, whatever was generated before, so
\* two calls with the same arguments return the same text
C22_GenerateKeepsNoState ==
  /\ \A i \in DOMAIN calls :
       /\ calls[i].content = OnFreshInstance(i).text
       /\ calls[i].classes = OnFreshInstance(i).g.classes
  /\ \A i, j \in DOMAIN calls :
       ( /\ calls[i].rootName = calls[j].rootName
         /\ calls[i].rootObject = calls[j].rootObject
         /\ calls[i].converterImportPath = calls[j].converterImportPath )
       => calls[i].content = calls[j].content

\* C22 witness: two calls in a row with the same arguments, each creating
\* three classes, the second on the registry the first filled
C22_Witness ==
  /\ Len(calls) = 2
  /\ calls[1].rootName = calls[2].rootName
  /\ calls[1].rootObject = calls[2].rootObject
  /\ Len(calls[2].classes) = 3
  /\ calls[2].classes[1].name = <<"R","o","o","t","E","n","t","i","t","y">>
  /\ DOMAIN usedClassNames # {}

\* C22 witness: a call after a call with a different root that used the same
\* class names
C22_WitnessOtherInput ==
  /\ Len(calls) = 2
  /\ calls[1].rootObject # calls[2].rootObject
  /\ Len(calls[1].classes) = 3
  /\ Len(calls[2].classes) = 2
  /\ calls[2].classes[2].name = calls[1].classes[2].name

(***************************************************************************)
(* generate on the engine's call stack: the recursive descent of           *)
(* createClass, inferField, inferType and inferArrayType has no depth      *)
(* guard, and a call that needs more frames than the stack holds raises    *)
(* RangeError.                                                             *)
(***************************************************************************)
\* the frames the engine's call stack holds, scaled to the roots of the model
CallStackLimit == 10

MaxOf(numbers) ==
  IF numbers = {} THEN 0
  ELSE CHOOSE m \in numbers : \A n \in numbers : n <= m

RECURSIVE createClassFrames(_)
RECURSIVE inferTypeFrames(_)
RECURSIVE inferArrayTypeFrames(_)
\* inferField (lines 1809-1835): its frame and those of inferType under it
inferFieldFrames(value) == 1 + inferTypeFrames(value)

\* createClass (lines 1788-1807): its frame and the deepest inferField of
\* its loop
createClassFrames(obj) ==
  1 + MaxOf({ inferFieldFrames(obj.val[i][2]) : i \in DOMAIN obj.val })

\* inferType (lines 1837-1863): an array goes to inferArrayType, an object
\* to createClass, a scalar returns at once
inferTypeFrames(value) ==
  1 + ( IF value.kind = "array" THEN inferArrayTypeFrames(value.val)
        ELSE IF value.kind = "object" THEN createClassFrames(value)
        ELSE 0 )

\* inferArrayType lines 1880-1893: the call made for the first non-null item
itemFrames(item) ==
  IF item.kind = "array" THEN inferArrayTypeFrames(item.val)
  ELSE IF item.kind = "object" THEN createClassFrames(item)
  ELSE inferTypeFrames(item)

\* inferArrayType (lines 1865-1907)
inferArrayTypeFrames(values) ==
  1 + ( IF NonNullItems(values) = << >> THEN 0
        ELSE itemFrames(NonNullItems(values)[1]) )

\* generate (lines 1770-1786): its frame and those of createClass on the root
generateFrames(obj) == 1 + createClassFrames(obj)

\* line 1623 when the stack holds the descent: generate returns
GenerateWithinStack ==
  /\ phase = "constructed"
  /\ \E name \in RootNames, obj \in RootObjects, path \in ConverterImportPaths :
       /\ generateFrames(obj) <= CallStackLimit
       /\ GenerateWith(name, obj, path)

\* line 1623 when it does not: RangeError unwinds generate, which returns no
\* text; the handler's instance is dropped with it
GenerateOverflows ==
  /\ phase = "constructed"
  /\ \E name \in RootNames, obj \in RootObjects, path \in ConverterImportPaths :
       /\ generateFrames(obj) > CallStackLimit
       /\ rootName' = name
       /\ rootObject' = obj
       /\ converterImportPath' = path
  /\ phase' = "raised"
  /\ classes' = << >>
  /\ usedClassNames' = << >>
  /\ UNCHANGED << options, content, fieldConfigs, caseFn, caseInput,
                  caseOutput, calls, registryVars, hostVars >>

DeepNext == GenerateWithinStack \/ GenerateOverflows

DeepSpec == Init /\ [][DeepNext]_vars

\* C23: for every finite JSON object root, whatever its nesting, and any
\* options, generate terminates and returns a document without raising
C23_GenerateReturnsWithoutRaising ==
  /\ phase # "raised"
  /\ rootObject.kind = "object" => Generated /\ content # << >>

\* of the root member at position k of Object.entries: when its value is an
\* object and its key in Pascal case is a disallowed name, the class of the
\* field is that name with Model; when it is an array whose first non-null
\* element is an object and its singularized key in Pascal case is
\* disallowed, the class of the elements is that name with Item
SuffixedWhereDisallowed(key, value, type) ==
  /\ ( value.kind = "object" /\ toPascalCase(key) \in DISALLOWED_CLASS_NAMES )
       => StartsWith(type, toPascalCase(key) \o <<"M","o","d","e","l">>)
  /\ ( /\ value.kind = "array"
       /\ NonNullItems(value.val) # << >>
       /\ NonNullItems(value.val)[1].kind = "object"
       /\ toPascalCase(singularize(key)) \in DISALLOWED_CLASS_NAMES )
       => StartsWith(ListElementType(type),
                     toPascalCase(singularize(key)) \o <<"I","t","e","m">>)

\* C24: no class record is named List, Map, Set, Iterable, Object or String:
\* a base name of that set gets the suffix Model for an object-valued key and
\* Item for the elements of an array (on the singularized key), and the
\* uniqueness suffix does not give such a name back
C24_NoDisallowedClassName ==
  Generated =>
    /\ \A i \in DOMAIN classes : classes[i].name \notin DISALLOWED_CLASS_NAMES
    /\ \A k \in DOMAIN classes[1].fields :
         SuffixedWhereDisallowed(ObjectEntries(rootObject)[k][1],
                                 ObjectEntries(rootObject)[k][2],
                                 StripNullable(classes[1].fields[k].type))

\* C24 witness: a root whose key string holds an object and whose key lists
\* holds an array of objects, every field nullable
C24_Witness ==
  /\ Generated
  /\ options.makeNullable
  /\ rootObject = TypedRoot
  /\ \E k \in DOMAIN classes[1].fields :
       classes[1].fields[k].type = <<"S","t","r","i","n","g","M","o","d","e","l","?">>
  /\ \E k \in DOMAIN classes[1].fields :
       classes[1].fields[k].type = <<"L","i","s","t","<","L","i","s","t","I","t","e","m",">","?">>

\* the calls among the first n that were made of fn with base
CallsOf(fn, base, n) ==
  { m \in 1..n : returned[m].fn = fn /\ returned[m].base = base }

\* the registry fn works on
RegistryOf(fn) ==
  IF fn = "uniqueClassName" THEN usedClassNames ELSE fieldNameCounts

\* the k-th name of a base: the base, then the base with the decimal k
KthName(base, k) == IF k = 1 THEN base ELSE base \o << DigitSeq[k + 1] >>

\* C27: on one registry, the k-th call of uniqueFieldName or uniqueClassName
\* with a base returns the base for k = 1 and the base followed by the
\* decimal k for k >= 2; the registry's count of a base is the number of
\* calls made with it, so a call leaves the counts of other bases unchanged
C27_KthCallReturnsBaseK ==
  /\ \A n \in DOMAIN returned :
       returned[n].name
         = KthName(returned[n].base,
                   Cardinality(CallsOf(returned[n].fn, returned[n].base, n)))
  /\ \A fn \in { "uniqueFieldName", "uniqueClassName" }, base \in BaseNames :
       /\ MapGet(RegistryOf(fn), base)
            = Cardinality(CallsOf(fn, base, Len(returned)))
       /\ base \in DOMAIN RegistryOf(fn)
            <=> CallsOf(fn, base, Len(returned)) # {}

\* C27 witness: three calls of uniqueFieldName with one base around a call
\* with another
C27_Witness ==
  /\ Len(returned) = 4
  /\ \A n \in 1..4 : returned[n].fn = "uniqueFieldName"
  /\ returned[1].name = <<"i","d">>
  /\ returned[2].name = <<"i","d","2">>
  /\ returned[3].name = <<"F","o","o">>
  /\ returned[4].name = <<"i","d","3">>
  /\ fieldNameCounts[<<"i","d">>] = 3

\* C28: no field name is a reserved word: a key whose camel case is a
\* reserved word gives a field named that word followed by Field, and the
\* uniqueness suffix after it yields no reserved word either
C28_NoReservedFieldName ==
  Generated =>
    \A k \in DOMAIN AllFields :
      /\ AllFields[k].name \notin RESERVED_WORDS
      /\ toCamelCase(OriginalKey(AllFields[k])) \in RESERVED_WORDS
           => StartsWith(AllFields[k].name,
                         toCamelCase(OriginalKey(AllFields[k]))
                           \o <<"F","i","e","l","d">>)

\* C28 witness: the key class among the keys of a root
C28_Witness ==
  /\ Generated
  /\ Len(classes[1].fields) = 3
  /\ \E k \in DOMAIN classes[1].fields :
       /\ OriginalKey(classes[1].fields[k]) = <<"c","l","a","s","s">>
       /\ classes[1].fields[k].name = <<"c","l","a","s","s","F","i","e","l","d">>

RECURSIVE BaseOfType(_)
\* the type a field type is built on: the nullable markers and the list
\* wrappers around it taken off
BaseOfType(type) ==
  IF StartsWith(StripNullable(type), <<"L","i","s","t","<">>)
    THEN BaseOfType(ListElementType(StripNullable(type)))
    ELSE StripNullable(type)

\* the types that name no class
BuiltInTypes ==
  { <<"S","t","r","i","n","g">>, <<"i","n","t">>, <<"d","o","u","b","l","e">>,
    <<"b","o","o","l">>, <<"d","y","n","a","m","i","c">>, <<"O","b","j","e","c","t">> }

\* the fields, as pairs of a class position and a field position, whose type
\* is built on the class name
ReferencesTo(name) ==
  UNION { { <<c, k>> : k \in { f \in DOMAIN classes[c].fields :
                                  BaseOfType(classes[c].fields[f].type) = name } } :
          c \in DOMAIN classes }

RECURSIVE ParentsOfMembers(_, _, _)
\* for the objects the walk reaches under the members entries of the object
\* at position self, in pre-order from position next on: the position of the
\* object each was reached from
ParentsOfMembers(entries, self, next) ==
  IF entries = << >> THEN << >>
  ELSE LET below == WalkValue(entries[1][2]) IN
         ( IF below = << >> THEN << >>
           ELSE <<self>> \o ParentsOfMembers(ObjectEntries(below[1]), next, next + 1) )
         \o ParentsOfMembers(Tail(entries), self, next + Len(below))

\* the position of the class that was being built when each class was
\* created; 0 for the root
Parents == <<0>> \o ParentsOfMembers(ObjectEntries(rootObject), 1, 2)

\* C30: every class name a field type or a list element type is built on
\* names a class record, and every class record but the root's is referred
\* to by exactly one field, a field of the class that was being built when
\* the record was created
C30_ReferencesResolve ==
  Generated =>
    /\ \A k \in DOMAIN AllFields :
         BaseOfType(AllFields[k].type) \notin BuiltInTypes
           => BaseOfType(AllFields[k].type) \in ClassNames
    /\ Len(Parents) = Len(classes)
    /\ \A i \in 2..Len(classes) :
         /\ Cardinality(ReferencesTo(classes[i].name)) = 1
         /\ \A ck \in ReferencesTo(classes[i].name) : ck[1] = Parents[i]

\* the same where the class names of the output are distinct
C30_ReferencesResolveWhereUnique ==
  C1_ClassNamesUnique => C30_ReferencesResolve

(***************************************************************************)
(* The command's panel: the handler of its messages, from validation to   *)
(* the model file and build_runner. A handler suspends at each await, so   *)
(* the invocations for two messages interleave there.                      *)
(***************************************************************************)
\* the messages the panel receives
MaxRequests == 2

\* a path of the workspace: its segments, from the workspace folder down
PubspecPath == << <<"p","u","b","s","p","e","c",".","y","a","m","l">> >>

\* generateDir (line 1691)
GenerateDir == << <<"l","i","b">>, <<"g","e","n","e","r","a","t","e">> >>

\* converterFile (line 1692)
ConverterPath == GenerateDir \o << <<"j","s","o","n","_","v","a","l","u","e","_","c","o","n","v","e","r","t","e","r",".","d","a","r","t">> >>

\* targetUri: the folder the command was invoked on
TargetFolder == << <<"l","i","b">>, <<"m","o","d","e","l","s">> >>

\* fileUri (line 1625)
ModelPath(fileBase) == TargetFolder \o << fileBase \o <<".","d","a","r","t">> >>

\* the helper template, each of its four classes by its first line
JSON_VALUE_CONVERTER_CONTENT ==
  << <<"i","m","p","o","r","t"," ","'","p","a","c","k","a","g","e",":","f","r","e","e","z","e","d","_","a","n","n","o","t","a","t","i","o","n","/","f","r","e","e","z","e","d","_","a","n","n","o","t","a","t","i","o","n",".","d","a","r","t","'",";">>,
     <<"c","l","a","s","s"," ","I","n","t","J","s","o","n","C","o","n","v","e","r","t","e","r"," ","i","m","p","l","e","m","e","n","t","s"," ","J","s","o","n","C","o","n","v","e","r","t","e","r","<","i","n","t",","," ","O","b","j","e","c","t","?",">"," ","{">>,
     <<"c","l","a","s","s"," ","D","o","u","b","l","e","J","s","o","n","C","o","n","v","e","r","t","e","r"," ","i","m","p","l","e","m","e","n","t","s"," ","J","s","o","n","C","o","n","v","e","r","t","e","r","<","d","o","u","b","l","e",","," ","O","b","j","e","c","t","?",">"," ","{">>,
     <<"c","l","a","s","s"," ","B","o","o","l","J","s","o","n","C","o","n","v","e","r","t","e","r"," ","i","m","p","l","e","m","e","n","t","s"," ","J","s","o","n","C","o","n","v","e","r","t","e","r","<","b","o","o","l",","," ","O","b","j","e","c","t","?",">"," ","{">>,
     <<"c","l","a","s","s"," ","S","t","r","i","n","g","J","s","o","n","C","o","n","v","e","r","t","e","r"," ","i","m","p","l","e","m","e","n","t","s"," ","J","s","o","n","C","o","n","v","e","r","t","e","r","<","S","t","r","i","n","g",","," ","O","b","j","e","c","t","?",">"," ","{">> >>

\* a helper file the project's developers changed
EditedConverter == << <<"/","/"," ","c","o","n","v","e","r","t","e","r","s"," ","o","f"," ","t","h","i","s"," ","p","r","o","j","e","c","t">> >>

\* a model file written before
EarlierModel == << <<"/","/"," ","w","r","i","t","t","e","n"," ","b","y"," ","h","a","n","d">> >>

\* what the file system holds at a directory
Directory == << >>

\* the workspace before the first message: without pubspec.yaml, or with it
\* and with or without the helper file and the model file of the name root
InitialFiles ==
  { << >> }
  \cup { MapSet(withModel, PubspecPath, Directory) :
           withModel \in
             UNION { { withHelper,
                       MapSet(withHelper, ModelPath(<<"r","o","o","t","_","e","n","t","i","t","y">>), EarlierModel) } :
                     withHelper \in
                       { << >>,
                         MapSet(MapSet(<< >>, GenerateDir, Directory),
                                ConverterPath, JSON_VALUE_CONVERTER_CONTENT),
                         MapSet(MapSet(<< >>, GenerateDir, Directory),
                                ConverterPath, EditedConverter) } } }

RECURSIVE pathRelative(_, _)
\* path.relative(from, to): the common leading segments dropped, one .. for
\* each segment left of from, then what is left of to
pathRelative(from, to) ==
  IF from # << >> /\ to # << >> /\ from[1] = to[1]
    THEN pathRelative(Tail(from), Tail(to))
    ELSE [ i \in 1..Len(from) |-> <<".", ".">> ] \o to

RECURSIVE joinPath(_)
joinPath(segments) ==
  IF segments = << >> THEN << >>
  ELSE IF Len(segments) = 1 THEN segments[1]
  ELSE segments[1] \o <<"/">> \o joinPath(Tail(segments))

\* lines 1711-1713
dotRelative(relative) ==
  IF StartsWith(relative, <<".">>) THEN relative ELSE <<".", "/">> \o relative

\* getRelativeImportPath(fromFolder, targetFile), lines 1707-1716
getRelativeImportPath(fromFolder, targetFile) ==
  dotRelative(joinPath(pathRelative(fromFolder, targetFile)))

\* JSON.parse on the texts of the messages: the value, or a SyntaxError
JSONParse(text) ==
  CASE text = <<"{","}">> -> [ ok |-> TRUE, value |-> JObject(<< >>) ]
    [] text = <<"{","\"","i","d","\"",":","1","}">> ->
         [ ok |-> TRUE, value |-> JObject(<< << <<"i","d">>, JNumber(10) >> >>) ]
    [] text = <<"n","u","l","l">> -> [ ok |-> TRUE, value |-> JNull ]
    [] text = <<"[","{","}","]">> ->
         [ ok |-> TRUE, value |-> JArray(<< JObject(<< >>) >>) ]
    [] text = <<"1">> -> [ ok |-> TRUE, value |-> JNumber(10) ]
    [] OTHER -> [ ok |-> FALSE, value |-> JNull ]

\* message.className: no string, blank, a name, a name that starts with a
\* digit inside blanks
ClassNameInputs == { Undefined, <<" "," ">>, <<"r","o","o","t">>, <<" ","1","a"," ">> }

\* message.jsonText: no string, blank, a text JSON.parse rejects, null, an
\* array, a number, objects
JsonTextInputs ==
  { Undefined, <<" "," ">>, <<"{">>, <<"n","u","l","l">>, <<"[","{","}","]">>, <<"1">>, <<"{","}">>,
    <<" ","{","\"","i","d","\"",":","1","}"," ">> }

Message(type, className, jsonText) ==
  [ type |-> type, className |-> className, jsonText |-> jsonText,
    options |-> [ makeNullable |-> FALSE, useDefaultValues |-> FALSE,
                  defaults |-> PanelDefaults ] ]

HandlerMessages ==
  { Message("cancel", Undefined, Undefined),
    Message("ready", Undefined, Undefined) }
  \cup { Message("generate", className, jsonText) :
           className \in ClassNameInputs, jsonText \in JsonTextInputs }

\* the messages the handler posts to the panel
NoError == ""

ClassNameRequired == "Class name is required."

JsonTextRequired == "JSON text is required."

ClassNameInvalid == "Class name must be a valid Dart identifier."

InvalidJson == "Invalid JSON"

JsonNotObject == "JSON must be an object (top-level map)."

NoProjectRoot == "Unable to locate Flutter project root (pubspec.yaml)."

ConverterFailed == "Failed to prepare json_value_converter.dart"

\* rawClassNameInput without its trim
rawClassNameInputUntrimmed(message) ==
  IF message.className = Undefined THEN << >> ELSE message.className

\* line 1541
rawClassNameInput(message) ==
  IF message.className = Undefined THEN << >> ELSE Trim(message.className)

\* line 1543
jsonTextOf(message) ==
  IF message.jsonText = Undefined THEN << >> ELSE Trim(message.jsonText)

\* lines 1542 and 1561
classNameOf(message) ==
  toPascalCase(ensureEntitySuffix(rawClassNameInput(message)))

\* line 1572
parsedOf(message) == JSONParse(jsonTextOf(message))

\* line 1581: !parsed || Array.isArray(parsed) || typeof parsed !== 'object'
notAnObject(parsed) ==
  \/ parsed.kind = "null"
  \/ parsed.kind = "boolean" /\ ~parsed.val
  \/ parsed.kind = "number" /\ parsed.val = 0
  \/ parsed.kind = "string" /\ parsed.val = << >>
  \/ parsed.kind = "array"
  \/ parsed.kind # "object"

\* one invocation of the handler: where it stands, how it ended, what it
\* posted, and what it did so far
Invocation(message, pc, result, error) ==
  [ message       |-> message,
    pc            |-> pc,
    result        |-> result,
    error         |-> error,
    converterFile |-> Undefined,
    content       |-> << >>,
    fileBase      |-> Undefined,
    existed       |-> FALSE,
    effects       |-> {} ]

\* the invocation that returned at once, having posted error
Rejected(message, error) == Invocation(message, "returned", "error", error)

\* lines 1532-1601: the handler up to its first await
entered(message) ==
  IF message.type = "cancel"
    THEN [ Invocation(message, "returned", "cancelled", NoError)
             EXCEPT !.effects = { "dispose" } ]
  ELSE IF message.type # "generate"
    THEN Invocation(message, "returned", "ignored", NoError)
  ELSE IF rawClassNameInput(message) = << >>
    THEN Rejected(message, ClassNameRequired)
  ELSE IF jsonTextOf(message) = << >>
    THEN Rejected(message, JsonTextRequired)
  ELSE IF classNameOf(message) = << >> \/ ~IsIdentifier(classNameOf(message))
    THEN Rejected(message, ClassNameInvalid)
  ELSE IF ~parsedOf(message).ok
    THEN Rejected(message, InvalidJson)
  ELSE IF notAnObject(parsedOf(message).value)
    THEN Rejected(message, JsonNotObject)
  ELSE Invocation(message, "getFlutterProjectRoot", "pending", NoError)

generatorVars ==
  << options, classes, usedClassNames, phase, rootName, rootObject,
     converterImportPath, content, calls >>

otherVars == << fieldConfigs, caseFn, caseInput, caseOutput, registryVars >>

\* the panel posts a message and the handler runs to its first await
ReceiveMessage ==
  /\ panel = "open"
  /\ Len(requests) < MaxRequests
  /\ \E message \in HandlerMessages :
       /\ requests' = Append(requests, entered(message))
       /\ panel' = IF message.type = "cancel" THEN "disposed" ELSE panel
  /\ UNCHANGED << fs, generatorVars, otherVars >>

\* the invocation h stands at pc
At(h, pc) == requests[h].pc = pc

\* the invocation h posts error and returns
PostsError(h, error) ==
  requests' = [ requests EXCEPT ![h].pc = "returned", ![h].result = "error",
                                ![h].error = error ]

\* the invocation h goes on to pc
GoesTo(h, pc) == requests' = [ requests EXCEPT ![h].pc = pc ]

\* await getFlutterProjectRoot(targetUri), lines 1601-1608 and 1671-1688
ProjectRootResolves(h) ==
  /\ At(h, "getFlutterProjectRoot")
  /\ IF PubspecPath \in DOMAIN fs
       THEN GoesTo(h, "stat converterFile")
       ELSE PostsError(h, NoProjectRoot)
  /\ UNCHANGED << panel, fs, generatorVars, otherVars >>

\* lines 1621-1627 once ensureJsonConverter returned: the instance and the
\* text of generate, and the call of confirmOverwrite up to its stat
generated(h, did, result) ==
  /\ requests' = [ requests EXCEPT
                     ![h].pc = "stat fileUri",
                     ![h].converterFile = ConverterPath,
                     ![h].content = result.text,
                     ![h].fileBase = fileBaseOr(toSnakeCase(classNameOf(requests[h].message))),
                     ![h].effects = requests[h].effects \cup did \cup { "generate" } ]
  /\ classes' = result.g.classes
  /\ usedClassNames' = result.g.usedClassNames
  /\ content' = result.text
  /\ calls' = Append(calls, [ rootName |-> classNameOf(requests[h].message),
                              rootObject |-> parsedOf(requests[h].message).value,
                              converterImportPath |->
                                getRelativeImportPath(TargetFolder, ConverterPath),
                              classes |-> result.g.classes,
                              content |-> result.text ])
  /\ options' = requests[h].message.options
  /\ phase' = "generated"
  /\ rootName' = classNameOf(requests[h].message)
  /\ rootObject' = parsedOf(requests[h].message).value
  /\ converterImportPath' = getRelativeImportPath(TargetFolder, ConverterPath)

ConverterPrepared(h, did) ==
  generated(h, did,
            generate([ options        |-> requests[h].message.options,
                       classes        |-> << >>,
                       usedClassNames |-> << >> ],
                     classNameOf(requests[h].message),
                     parsedOf(requests[h].message).value,
                     getRelativeImportPath(TargetFolder, ConverterPath)))

\* ensureJsonConverter lines 1694-1696: stat finds the helper file
ConverterFound(h) ==
  /\ At(h, "stat converterFile")
  /\ ConverterPath \in DOMAIN fs
  /\ ConverterPrepared(h, {})
  /\ UNCHANGED << panel, fs, otherVars >>

\* lines 1697-1698: stat rejects, createDirectory is called
ConverterMissing(h) ==
  /\ At(h, "stat converterFile")
  /\ ConverterPath \notin DOMAIN fs
  /\ GoesTo(h, "createDirectory")
  /\ UNCHANGED << panel, fs, generatorVars, otherVars >>

\* line 1698: the directory is there, writeFile is called
DirectoryCreated(h) ==
  /\ At(h, "createDirectory")
  /\ fs' = MapSet(fs, GenerateDir, Directory)
  /\ GoesTo(h, "writeFile converterFile")
  /\ UNCHANGED << panel, generatorVars, otherVars >>

\* lines 1699-1703: the template is written and the path returned
ConverterWritten(h) ==
  /\ At(h, "writeFile converterFile")
  /\ fs' = MapSet(fs, ConverterPath, JSON_VALUE_CONVERTER_CONTENT)
  /\ ConverterPrepared(h, { "writeFile converterFile" })
  /\ UNCHANGED << panel, otherVars >>

\* lines 1613-1619: createDirectory or writeFile rejects
ConverterFails(h) ==
  /\ At(h, "createDirectory") \/ At(h, "writeFile converterFile")
  /\ PostsError(h, ConverterFailed)
  /\ UNCHANGED << panel, fs, generatorVars, otherVars >>

\* confirmOverwrite lines 1719-1723: no file at fileUri; true is returned and
\* line 1632 calls writeFile
TargetAbsent(h) ==
  /\ At(h, "stat fileUri")
  /\ ModelPath(requests[h].fileBase) \notin DOMAIN fs
  /\ GoesTo(h, "writeFile fileUri")
  /\ UNCHANGED << panel, fs, generatorVars, otherVars >>

\* lines 1725-1729: the file exists; the modal question is shown
TargetExists(h) ==
  /\ At(h, "stat fileUri")
  /\ ModelPath(requests[h].fileBase) \in DOMAIN fs
  /\ requests' = [ requests EXCEPT ![h].pc = "showWarningMessage",
                                   ![h].existed = TRUE ]
  /\ UNCHANGED << panel, fs, generatorVars, otherVars >>

\* line 1731 with the answer Overwrite, then line 1632 calls writeFile
OverwriteChosen(h) ==
  /\ At(h, "showWarningMessage")
  /\ requests' = [ requests EXCEPT
                     ![h].pc = "writeFile fileUri",
                     ![h].effects = requests[h].effects \cup { "Overwrite" } ]
  /\ UNCHANGED << panel, fs, generatorVars, otherVars >>

OverwriteDeclinedWritesAnyway(h) ==
  /\ At(h, "showWarningMessage")
  /\ GoesTo(h, "writeFile fileUri")
  /\ UNCHANGED << panel, fs, generatorVars, otherVars >>

\* line 1731 with the question dismissed, then lines 1628-1630
OverwriteDeclined(h) ==
  /\ At(h, "showWarningMessage")
  /\ requests' = [ requests EXCEPT ![h].pc = "returned",
                                   ![h].result = "declined" ]
  /\ UNCHANGED << panel, fs, generatorVars, otherVars >>

\* line 1632: the file system writes the model file
ModelWritten(h) ==
  /\ At(h, "writeFile fileUri")
  /\ fs' = MapSet(fs, ModelPath(requests[h].fileBase), requests[h].content)
  /\ requests' = [ requests EXCEPT
                     ![h].pc = "written",
                     ![h].effects = requests[h].effects \cup { "writeFile fileUri" } ]
  /\ UNCHANGED << panel, generatorVars, otherVars >>

\* line 1632: writeFile rejects; nothing catches it
ModelWriteFails(h) ==
  /\ At(h, "writeFile fileUri")
  /\ requests' = [ requests EXCEPT ![h].pc = "returned",
                                   ![h].result = "rejected" ]
  /\ UNCHANGED << panel, fs, generatorVars, otherVars >>

\* lines 1633-1646: the panel is disposed and build_runner spawned
BuildRunnerStarted(h) ==
  /\ At(h, "written")
  /\ panel' = "disposed"
  /\ requests' = [ requests EXCEPT
                     ![h].pc = "runBuildRunner",
                     ![h].effects = requests[h].effects
                                      \cup { "dispose", "runBuildRunner" } ]
  /\ UNCHANGED << fs, generatorVars, otherVars >>

\* lines 1647-1652 and 1753-1760: the process closes with code
BuildRunnerClosed(h) ==
  /\ At(h, "runBuildRunner")
  /\ \E code \in { 0, 1 } :
       requests' = [ requests EXCEPT
                       ![h].pc = "returned",
                       ![h].result = IF code = 0 THEN "completed"
                                                 ELSE "build_runner failed" ]
  /\ UNCHANGED << panel, fs, generatorVars, otherVars >>

\* the panel is created on a workspace (lines 1520-1531)
HandlerInit ==
  /\ Constructed([ makeNullable |-> FALSE, useDefaultValues |-> FALSE,
                   defaults |-> PanelDefaults ])
  /\ fieldConfigs = NoFieldConfigs
  /\ NoCasing
  /\ calls = << >>
  /\ fieldNameCounts = << >>
  /\ returned = << >>
  /\ panel = "open"
  /\ fs \in InitialFiles
  /\ requests = << >>

HandlerNext ==
  \/ ReceiveMessage
  \/ \E h \in DOMAIN requests : ProjectRootResolves(h)
  \/ \E h \in DOMAIN requests : ConverterFound(h)
  \/ \E h \in DOMAIN requests : ConverterMissing(h)
  \/ \E h \in DOMAIN requests : DirectoryCreated(h)
  \/ \E h \in DOMAIN requests : ConverterWritten(h)
  \/ \E h \in DOMAIN requests : ConverterFails(h)
  \/ \E h \in DOMAIN requests : TargetAbsent(h)
  \/ \E h \in DOMAIN requests : TargetExists(h)
  \/ \E h \in DOMAIN requests : OverwriteChosen(h)
  \/ \E h \in DOMAIN requests : OverwriteDeclined(h)
  \/ \E h \in DOMAIN requests : ModelWritten(h)
  \/ \E h \in DOMAIN requests : ModelWriteFails(h)
  \/ \E h \in DOMAIN requests : BuildRunnerStarted(h)
  \/ \E h \in DOMAIN requests : BuildRunnerClosed(h)

HandlerSpec == HandlerInit /\ [][HandlerNext]_vars

\* a text that is no string or holds blanks only
IsBlank(text) == text = Undefined \/ \A i \in DOMAIN text : text[i] = " "

\* the error the handler owes a generate message for its JSON text: none for
\* an object
JsonErrorOwed(message) ==
  IF IsBlank(message.jsonText) THEN JsonTextRequired
  ELSE IF Trim(message.jsonText) = <<"{">> THEN InvalidJson
  ELSE IF Trim(message.jsonText) \in { <<"n","u","l","l">>, <<"[","{","}","]">>, <<"1">> }
    THEN JsonNotObject
  ELSE NoError

\* the error owed when a class name that is no identifier is an error
ErrorOwedForNameAsTyped(message) ==
  IF IsBlank(message.className) THEN ClassNameRequired
  ELSE IF IsBlank(message.jsonText) THEN JsonTextRequired
  ELSE IF ~IsIdentifier(Trim(message.className)) THEN ClassNameInvalid
  ELSE JsonErrorOwed(message)

\* the error owed when only a blank class name is an error
ErrorOwed(message) ==
  IF IsBlank(message.className) THEN ClassNameRequired
  ELSE JsonErrorOwed(message)

\* generate is only ever called with a parsed JSON object as root and a root
\* class name matching [A-Za-z_][A-Za-z0-9_]*, once for each invocation that
\* got that far
GenerateCalledOnValidInput ==
  /\ \A c \in DOMAIN calls :
       calls[c].rootObject.kind = "object" /\ IsIdentifier(calls[c].rootName)
  /\ Len(calls) = Cardinality({ h \in DOMAIN requests :
                                  "generate" \in requests[h].effects })

\* the invocation h posted error and returned, having called and written
\* nothing
RejectedWith(h, error) ==
  /\ requests[h].pc = "returned"
  /\ requests[h].result = "error"
  /\ requests[h].error = error
  /\ requests[h].effects = {}

\* C25: generate is only ever called with a parsed JSON object as root and a
\* root class name matching [A-Za-z_][A-Za-z0-9_]*; for a generate message
\* whose class name is empty or invalid, whose JSON text is empty or
\* unparsable, or whose root is null, an array or a scalar, the handler posts
\* the error, does not call generate and does not write the model file
C25_InvalidMessagesAreRejected ==
  /\ GenerateCalledOnValidInput
  /\ \A h \in DOMAIN requests :
       ( requests[h].message.type = "generate"
         /\ ErrorOwedForNameAsTyped(requests[h].message) # NoError )
       => /\ requests[h].pc = "returned"
          /\ requests[h].result = "error"
          /\ requests[h].error # NoError
          /\ requests[h].effects = {}

\* C25 as amended: the same for a class name that is empty or blank; a class
\* name that is no identifier is not rejected: the name generate gets is its
\* Pascal case behind the entity suffix, with X before a leading digit, and
\* the handler's check of that name rejects no message
C25_BlankAndNonObjectAreRejected ==
  /\ GenerateCalledOnValidInput
  /\ \A h \in DOMAIN requests :
       /\ ( requests[h].message.type = "generate"
            /\ ErrorOwed(requests[h].message) # NoError )
          => RejectedWith(h, ErrorOwed(requests[h].message))
       /\ ( requests[h].message.type = "generate"
            /\ ErrorOwed(requests[h].message) = NoError )
          => requests[h].error \in { NoError, NoProjectRoot, ConverterFailed }

\* C25 witness: a message with an array as root was rejected; a message
\* whose class name starts with a digit got as far as generate
C25_Witness ==
  /\ Len(requests) = 2
  /\ requests[1].message.jsonText = <<"[","{","}","]">>
  /\ requests[1].error = JsonNotObject
  /\ requests[2].message.className = <<" ","1","a"," ">>
  /\ "generate" \in requests[2].effects
  /\ Len(calls) = 1
  /\ calls[1].rootName = <<"X","1","a","E","n","t","i","t","y">>

(***************************************************************************)
(* The helper file over the requests of one project                        *)
(***************************************************************************)

\* the step in which the invocation h has the file system write the helper
WritesConverter(h) ==
  /\ "writeFile converterFile" \notin requests[h].effects
  /\ "writeFile converterFile" \in requests'[h].effects

\* the path ensureJsonConverter returned to the invocation h, once it did
ReturnedPathIsFixed ==
  \A h \in DOMAIN requests :
    requests[h].converterFile \in { Undefined, ConverterPath }

\* C26: over the generate requests of one project, ensureJsonConverter writes
\* the helper template only in a state where the helper file does not exist,
\* so that an existing helper file is never written over, and the path it
\* returns is the same on every call
C26_HelperWrittenOnlyWhenAbsent ==
  /\ [](ReturnedPathIsFixed)
  /\ [][\A h \in DOMAIN requests :
          WritesConverter(h) => ConverterPath \notin DOMAIN fs]_vars

\* what holds of the helper file all the same: a write puts the template
\* there, and the text of a helper file that exists never changes
C26_HelperTextKept ==
  [][/\ \A h \in DOMAIN requests :
          WritesConverter(h) => fs'[ConverterPath] = JSON_VALUE_CONVERTER_CONTENT
     /\ ConverterPath \in DOMAIN fs
          => /\ ConverterPath \in DOMAIN fs'
             /\ fs'[ConverterPath] = fs[ConverterPath]]_vars

(***************************************************************************)
(* The order of the handler's steps                                        *)
(***************************************************************************)

\* what the invocation h did so far
Did(h, effect) == effect \in requests[h].effects

\* the invocation h had the model file written only after its message passed
\* every validation, the project root was found, ensureJsonConverter
\* returned and generate ran, and, where confirmOverwrite found the target
\* file, after the user chose Overwrite
WrittenInOrder(h) ==
  Did(h, "writeFile fileUri")
    => /\ requests[h].message.type = "generate"
       /\ ErrorOwed(requests[h].message) = NoError
       /\ requests[h].error = NoError
       /\ PubspecPath \in DOMAIN fs
       /\ requests[h].converterFile = ConverterPath
       /\ ConverterPath \in DOMAIN fs
       /\ Did(h, "generate")
       /\ requests[h].existed => Did(h, "Overwrite")
       /\ ModelPath(requests[h].fileBase) \in DOMAIN fs

\* the invocation h started build_runner only after its write completed
BuildRunnerAfterWrite(h) ==
  Did(h, "runBuildRunner") => Did(h, "writeFile fileUri")

\* the invocation h in which the user declined wrote no model file, started
\* no build_runner and did not dispose the panel
DeclinedDidNothing(h) ==
  requests[h].result = "declined"
    => /\ requests[h].pc = "returned"
       /\ requests[h].existed
       /\ ~Did(h, "Overwrite")
       /\ ~Did(h, "writeFile fileUri")
       /\ ~Did(h, "runBuildRunner")
       /\ ~Did(h, "dispose")

\* the panel is disposed by the invocations that say so only
PanelOpenUnlessDisposed ==
  panel = "disposed" <=> \E h \in DOMAIN requests : Did(h, "dispose")

\* the step in which the user declines leaves files and panel as they are
DeclineStep ==
  \A h \in DOMAIN requests :
    ( requests[h].result # "declined" /\ requests'[h].result = "declined" )
      => fs' = fs /\ panel' = panel

\* C29: in the generate message handler the model file is written only
\* after every validation passed, the project root was found, the converter
\* helper was prepared and, when the target file already exists, the user
\* chose Overwrite; build_runner is started only after that write
\* completed; if the user declines the overwrite, the model file is left
\* unchanged, build_runner is not started and the panel stays open
C29_HandlerStepsInOrder ==
  /\ [](\A h \in DOMAIN requests :
          WrittenInOrder(h) /\ BuildRunnerAfterWrite(h) /\ DeclinedDidNothing(h))
  /\ [](PanelOpenUnlessDisposed)
  /\ [][DeclineStep]_vars

\* C29 witness: the user declined in one invocation, the earlier model file
\* is still there and the panel open; in the other the user chose Overwrite,
\* the file was written and build_runner started
C29_Witness ==
  /\ Len(requests) = 2
  /\ requests[1].result = "declined"
  /\ requests[2].existed
  /\ Did(2, "Overwrite")
  /\ Did(2, "writeFile fileUri")
  /\ Did(2, "runBuildRunner")
  /\ fs[ModelPath(requests[2].fileBase)] = requests[2].content

\* the state right after the user declined, with nothing else under way
C29_WitnessDeclined ==
  /\ Len(requests) = 1
  /\ requests[1].result = "declined"
  /\ panel = "open"
  /\ fs[ModelPath(requests[1].fileBase)] = EarlierModel

====
